---- MODULE Spec2Model ----
(***************************************************************************)
(* State-machine model of the PPG vital-signs pipeline:                    *)
(*   VitalSignsProcessor   (src/src/modules/VitalSignsProcessor.ts)        *)
(*   ArrhythmiaDetector    (src/src/modules/ArrhythmiaDetector.ts)         *)
(*   useArrhythmiaAnalyzer (src/src/hooks/useHeartBeatProcessor.ts)        *)
(*   BloodPressureCalculator, SpO2Calculator / SpO2Processor               *)
(*   PPGSignalProcessor    (src/src/modules/spo2/SpO2Processor.ts)         *)
(*   VitalSignsRisk        (src/unnamed/part_003)                          *)
(*   createBloodPressureStabilizer (src/unnamed/part_002)                  *)
(*   getArrhythmiaDisplay  (src/src/components/PPGSignalMeter.tsx)         *)
(*                                                                         *)
(* Arithmetic.  The source computes in IEEE doubles; the model computes    *)
(* the same expressions over exact rationals (numerator / denominator      *)
(* pairs of integers).  The filtered samples of ppgValues are stored       *)
(* multiplied by PPG_SCALE = 6 so that the moving average over 1, 2 or 3   *)
(* integer samples is an integer.  NaN (0/0 in the source) is the value    *)
(* NaN below and is propagated through every arithmetic step.              *)
(***************************************************************************)
EXTENDS Integers, Sequences, FiniteSets, TLC

VARIABLES
  \* ---- VitalSignsProcessor fields (VitalSignsProcessor.ts:58-82)
  ppgValues, lastSpO2, lastSystolic, lastDiastolic, baselineEstablished,
  movingAverageSpO2, smaBuffer,
  \* ---- what the last processSignal call returned, and the sample driver
  vsOut, gen,
  \* ---- ArrhythmiaDetector fields (ArrhythmiaDetector.ts:5-13)
  rrIntervals, amplitudes, lastPeakTimes, learningPhase, learningPhaseCount,
  lastAnalysisTime, lastPeakTime,
  \* ---- Date.now(), the last detector call and its result, the beat driver
  now, adLast, adDrv,
  \* ---- useArrhythmiaAnalyzer refs (useHeartBeatProcessor.ts:142-161)
  hook,
  \* ---- BloodPressureCalculator and SpO2Calculator state, last results
  bpCalc, spo2Calc,
  \* ---- PPGSignalProcessor fields, Date.now(), its last result, the frame
  \* driver (SpO2Processor.ts:175-203)
  sig,
  \* ---- VitalSignsRisk static fields, Date.now(), the last call and its
  \* result, the reading driver (part_003:26-35)
  risk,
  \* ---- two blood-pressure stabilizers (closure variables, part_002:6-8),
  \* their last results and the reading driver
  stab,
  \* ---- an output string on its way from its producer to its consumer, and
  \* what the consumer parsed from it
  wire,
  \* ---- a pure function of the program applied to arguments drawn from a
  \* bounded set: the function, its arguments and what it returned
  probe,
  \* ---- the Index page: its React state, its refs, the class VitalSignsRisk
  \* it calls and the closure its interval timer holds (Index.tsx:18-43)
  page,
  \* ---- the PPGSignalProcessor with hysteresis (SpO2Processor.ts:451-471):
  \* its fields, Date.now(), its last result, the frame driver
  ppg,
  \* ---- the useHeartBeatProcessor hook (useHeartBeatProcessor.ts:5-129):
  \* its state, processorRef, the pending timers, the clock
  hb,
  \* ---- the component a run exercises (the components share no state)
  focus

vsVars == <<ppgValues, lastSpO2, lastSystolic, lastDiastolic,
            baselineEstablished, movingAverageSpO2, smaBuffer, vsOut, gen>>
adVars == <<rrIntervals, amplitudes, lastPeakTimes, learningPhase,
            learningPhaseCount, lastAnalysisTime, lastPeakTime, now, adLast,
            adDrv>>
hookVars == <<hook>>
calcVars == <<bpCalc, spo2Calc>>
extVars == <<sig, risk, stab, wire, probe>>
uiVars == <<page, ppg, hb>>
vars == <<vsVars, adVars, hookVars, calcVars, extVars, uiVars, focus>>

-----------------------------------------------------------------------------
(* Generic helpers                                                         *)

Abs(x) == IF x < 0 THEN -x ELSE x
MinOf(a, b) == IF a < b THEN a ELSE b
MaxOf(a, b) == IF a > b THEN a ELSE b

RECURSIVE Gcd(_, _)
Gcd(a, b) == IF b = 0 THEN Abs(a) ELSE Gcd(b, a % b)

RECURSIVE SumFrom(_, _)
SumFrom(s, i) == IF i > Len(s) THEN 0 ELSE s[i] + SumFrom(s, i + 1)
SumSeq(s) == SumFrom(s, 1)

\* Math.max(...s), Math.min(...s) of a non-empty array
SeqMax(s) == CHOOSE x \in {s[i] : i \in 1..Len(s)} :
               \A j \in 1..Len(s) : s[j] <= x
SeqMin(s) == CHOOSE x \in {s[i] : i \in 1..Len(s)} :
               \A j \in 1..Len(s) : s[j] >= x

\* Array.prototype.slice(-n): the last n elements (all of them if fewer)
LastN(s, n) == IF Len(s) <= n THEN s ELSE SubSeq(s, Len(s) - n + 1, Len(s))
\* Array.prototype.slice(0, n)
FirstN(s, n) == IF Len(s) <= n THEN s ELSE SubSeq(s, 1, n)
\* a variant that drops the pushed entry when the buffer is full
PushCap_DropsNewest(s, x, cap) == IF Len(s) + 1 > cap THEN s
                                  ELSE Append(s, x)
\* push followed by shift() when the length exceeds cap
PushCap(s, x, cap) == IF Len(s) + 1 > cap THEN Tail(Append(s, x))
                      ELSE Append(s, x)

RECURSIVE SetToSeq(_)
SetToSeq(S) == IF S = {} THEN <<>>
               ELSE LET m == CHOOSE x \in S : \A y \in S : x <= y
                    IN <<m>> \o SetToSeq(S \ {m})

\* [...a].sort((x, y) => x - y)
RECURSIVE InsertSorted(_, _)
InsertSorted(s, x) == IF s = <<>> THEN <<x>>
                      ELSE IF x <= Head(s) THEN <<x>> \o s
                      ELSE <<Head(s)>> \o InsertSorted(Tail(s), x)
RECURSIVE SortAsc(_)
SortAsc(s) == IF s = <<>> THEN <<>>
              ELSE InsertSorted(SortAsc(Tail(s)), Head(s))

\* Math.round of the rational num/den (den > 0): floor(num/den + 1/2)
Round(num, den) == (2 * num + den) \div (2 * den)
\* Math.floor of the rational num/den (den > 0)
Floor(num, den) == num \div den

\* the not-a-number value of an IEEE double
NaN == -1000000
IsNaN(x) == x = NaN

-----------------------------------------------------------------------------
(* Strings.  A string is the sequence of its characters, so that the        *)
(* template literals that build an output string and the split / parseInt / *)
(* Number calls that read it back are computed character by character.      *)
DigitChars == <<"0", "1", "2", "3", "4", "5", "6", "7", "8", "9">>
IsDigit(c) == \E d \in 1..10 : DigitChars[d] = c
DigitValue(c) == (CHOOSE d \in 1..10 : DigitChars[d] = c) - 1

\* String(n) for an integer n >= 0
RECURSIVE DigitsOf(_)
DigitsOf(n) ==
  IF n < 10 THEN <<DigitChars[n + 1]>>
  ELSE Append(DigitsOf(n \div 10), DigitChars[(n % 10) + 1])
\* `${x}` for a number x that is an integer or NaN
NumberToString(x) ==
  IF IsNaN(x) THEN <<"N", "a", "N">>
  ELSE IF x < 0 THEN <<"-">> \o DigitsOf(-x)
  ELSE DigitsOf(x)
\* `${a}/${b}`
PressureString(a, b) == NumberToString(a) \o <<"/">> \o NumberToString(b)

\* str.split(sep) for a separator of one character
RECURSIVE SplitFrom(_, _, _, _)
SplitFrom(str, sep, i, part) ==
  IF i > Len(str) THEN <<part>>
  ELSE IF str[i] = sep THEN <<part>> \o SplitFrom(str, sep, i + 1, <<>>)
  ELSE SplitFrom(str, sep, i + 1, Append(part, str[i]))
Split(str, sep) == SplitFrom(str, sep, 1, <<>>)

\* the value of the longest run of digits of str that starts at i, given
\* the value acc of the digits before i
RECURSIVE DigitRun(_, _, _)
DigitRun(str, i, acc) ==
  IF i > Len(str) \/ ~IsDigit(str[i]) THEN acc
  ELSE DigitRun(str, i + 1, 10 * acc + DigitValue(str[i]))
\* parseInt(str, 10): an optional sign and the leading digits; NaN when
\* there is no digit
parseIntUnsigned(str) ==
  IF Len(str) = 0 \/ ~IsDigit(str[1]) THEN NaN ELSE DigitRun(str, 1, 0)
parseInt(str) ==
  IF Len(str) > 0 /\ str[1] = "-"
  THEN IF IsNaN(parseIntUnsigned(Tail(str))) THEN NaN
       ELSE -parseIntUnsigned(Tail(str))
  ELSE IF Len(str) > 0 /\ str[1] = "+" THEN parseIntUnsigned(Tail(str))
  ELSE parseIntUnsigned(str)
\* Number(str) for a string without spaces, exponent or fraction: the
\* whole string must be an optionally signed run of digits; "" is 0
AllDigits(str) == Len(str) > 0 /\ \A i \in 1..Len(str) : IsDigit(str[i])
ToNumber(str) ==
  IF Len(str) = 0 THEN 0
  ELSE IF AllDigits(str) THEN DigitRun(str, 1, 0)
  ELSE IF str[1] = "-" /\ AllDigits(Tail(str)) THEN -DigitRun(Tail(str), 1, 0)
  ELSE IF str[1] = "+" /\ AllDigits(Tail(str)) THEN DigitRun(Tail(str), 1, 0)
  ELSE NaN

Dashes == <<"-", "-", "/", "-", "-">>
ZeroPressure == <<"0", "/", "0">>
DefaultPressure == <<"1", "2", "0", "/", "8", "0">>

-----------------------------------------------------------------------------
(* VitalSignsProcessor                                                     *)

WINDOW_SIZE == 300
SPO2_WINDOW == 10
SMA_WINDOW == 3
BASELINE_SAMPLES == 60
PPG_SCALE == 6

\* a > b and a < b on doubles: false when either side is NaN
Greater(a, b) == ~IsNaN(a) /\ ~IsNaN(b) /\ a > b
Less(a, b) == ~IsNaN(a) /\ ~IsNaN(b) /\ a < b

\* findPeaksAndValleys, lines 412-437: the loop over i = 3 .. length - 4
\* (0-based; values[i] of the source is values[i + 1] here)
PeakAtNearest(values, i) ==
  /\ Greater(values[i + 1], values[i]) /\ Greater(values[i + 1], values[i - 1])
  /\ Greater(values[i + 1], values[i + 2]) /\ Greater(values[i + 1], values[i + 3])
PeakAt(values, i) ==
  /\ Greater(values[i + 1], values[i]) /\ Greater(values[i + 1], values[i - 1])
  /\ Greater(values[i + 1], values[i - 2]) /\ Greater(values[i + 1], values[i + 2])
  /\ Greater(values[i + 1], values[i + 3]) /\ Greater(values[i + 1], values[i + 4])
ValleyAt(values, i) ==
  /\ Less(values[i + 1], values[i]) /\ Less(values[i + 1], values[i - 1])
  /\ Less(values[i + 1], values[i - 2]) /\ Less(values[i + 1], values[i + 2])
  /\ Less(values[i + 1], values[i + 3]) /\ Less(values[i + 1], values[i + 4])
\* the indices the loop visits, for (let i = 3; i < values.length - 3; i++),
\* and the ones it pushes, in the order of the loop
LoopIndices(values) == {i \in 3..(Len(values) - 1) : i < Len(values) - 3}
PeakIdx(values) == SetToSeq({i \in LoopIndices(values) : PeakAt(values, i)})
ValleyIdx(values) == SetToSeq({i \in LoopIndices(values) : ValleyAt(values, i)})
findPeaksAndValleys(values) ==
  [peakTimes |-> PeakIdx(values), valleys |-> ValleyIdx(values)]

\* valleys[i] is truthy: the entry exists and is not index 0
Truthy(valleys, i) == i + 1 <= Len(valleys) /\ valleys[i + 1] # 0

\* applySMAFilter: returns <<new smaBuffer, PPG_SCALE * (sum / length)>>;
\* a sum over a NaN entry is NaN
applySMAFilter(buf, value) ==
  LET nb == PushCap(buf, value, SMA_WINDOW)
  IN <<nb, IF \E i \in 1..Len(nb) : IsNaN(nb[i]) THEN NaN
           ELSE SumSeq(nb) * (PPG_SCALE \div Len(nb))>>

\* calculateSignalQuality / 100 as a rational <<num, den>> in [0, 1].
\* amps[i] = |values[peak_i] - values[valleys[i]]| * 1.5, or 0 when valleys[i]
\* is missing; quality = clamp(100 * (1 - variability / (avgAmp * 2 || 1))).
QualityAmps(values, peaks, valleys) ==
  [i \in 1..Len(peaks) |->
     IF Truthy(valleys, i - 1)
     THEN Abs(values[peaks[i] + 1] - values[valleys[i] + 1])
     ELSE 0]
calculateSignalQuality(values, peaks, valleys) ==
  LET amps == QualityAmps(values, peaks, valleys)
      k == Len(amps)
      sumA == SumSeq(amps)
      V == SumSeq([i \in 1..k |-> Abs(k * amps[i] - sumA)])
  IN IF k = 0 THEN <<0, 1>>
     ELSE IF sumA = 0 THEN <<1, 1>>
     ELSE <<MaxOf(0, MinOf(2 * k * sumA, 2 * k * sumA - V)), 2 * k * sumA>>

\* qualityWeight = Math.min((signalQuality / 100) * 1.5, 1), reduced
qualityWeight(q) ==
  LET n == 3 * q[1]
      d == 2 * q[2]
      g == Gcd(n, d)
  IN IF n >= d THEN <<1, 1>> ELSE <<n \div g, d \div g>>

\* calculateActualSpO2, lines 216 and 229: Math.min(98, ...)
SpO2Ceiling == 98

\* spo2Raw = Math.min(98, 105 - 18 * ratio * 1.05), ratio = (AC / DC) * 2.5,
\* AC = (max - min) * 1.5, DC = mean * 0.8:  105 - (2835 / 32) * r * n / S
spo2RawOf(r, n, S) ==
  LET num0 == 105 * 32 * S - 2835 * r * n
      den0 == 32 * S
      g == Gcd(num0, den0)
      num == num0 \div g
      den == den0 \div g
  IN IF num > SpO2Ceiling * den THEN <<SpO2Ceiling, 1>> ELSE <<num, den>>

\* calculateActualSpO2, lines 221-233: the estimate weighted by the signal
\* quality w, newSpo2 = spo2Raw * w + last * (1 - w), rounded and clamped
SpO2Weighted(raw, w, last) ==
  MinOf(SpO2Ceiling,
        MaxOf(85, Round(raw[1] * w[1] + last * raw[2] * (w[2] - w[1]),
                        raw[2] * w[2])))

\* calculateActualSpO2, lines 207-233: lm are the landmarks of the window
SpO2OfLandmarks(recent, lm, raw, last) ==
  IF Len(lm.peakTimes) < 2 THEN last
  ELSE SpO2Weighted(raw,
                    qualityWeight(calculateSignalQuality(recent, lm.peakTimes,
                                                         lm.valleys)),
                    last)

\* calculateActualSpO2, lines 191-233: recent = ppgValues.slice(-60)
SpO2OfWindow(recent, last) ==
  LET n == Len(recent)
      S == SumSeq(recent)
      r == SeqMax(recent) - SeqMin(recent)
  IN IF S = 0 THEN last                          \* dcComponent === 0
     ELSE IF 75 * r * n < S THEN last            \* perfusionIndex < 5
     ELSE SpO2OfLandmarks(recent, findPeaksAndValleys(recent),
                          spo2RawOf(r, n, S), last)

\* calculateActualSpO2(ppgValues) with this.lastSpO2 = last and
\* this.baselineEstablished = base
calculateActualSpO2(values, last, base) ==
  IF ~base THEN last ELSE SpO2OfWindow(LastN(values, 60), last)

\* updateMovingAverageSpO2
updateMovingAverageSpO2(buf, newValue) == PushCap(buf, newValue, SPO2_WINDOW)

\* getSmoothedSpO2: IQR outlier rejection, then rounded mean
getSmoothedSpO2(buf, last) ==
  LET sorted == SortAsc(buf)
      q1 == sorted[Floor(Len(sorted), 4) + 1]
      q3 == sorted[Floor(3 * Len(sorted), 4) + 1]
      iqr == q3 - q1
      valid == SelectSeq(buf, LAMBDA v : /\ 2 * v >= 2 * q1 - 3 * iqr
                                         /\ 2 * v <= 2 * q3 + 3 * iqr)
  IN IF Len(buf) = 0 THEN last
     ELSE IF Len(valid) = 0 THEN last
     ELSE Round(SumSeq(valid), Len(valid))

\* calculateActualBloodPressure(ppgValues) with this.lastSystolic = lastSys and
\* this.lastDiastolic = lastDia.  stored = TRUE when the call reached lines
\* 318-319 and overwrote this.lastSystolic / this.lastDiastolic.
\*   systolic  = round((1000 / avgPTT) * 2.5),  avgPTT = (p_k - p_1) / (k - 1)
\*   diastolic = round(systolic * (0.6 + avgAmplitude * 0.0008)),
\*   avgAmplitude = mean of (peak_i - valley_(i-1)) * 1.2, NaN when no valley
\*   pairs with a peak (0 / 0)
BPAmplitudes(values, peaks, valleys) ==
  LET idx == SetToSeq({i \in 1..(Len(peaks) - 1) : Truthy(valleys, i - 1)})
  IN [m |-> Len(idx),
      D |-> SumSeq([j \in 1..Len(idx) |->
                     values[peaks[idx[j] + 1] + 1]
                     - values[valleys[idx[j]] + 1]])]
BPEstimate(systolic, a) ==
  [systolic |-> systolic,
   diastolic |-> IF a.m = 0 THEN NaN
                 ELSE Round(systolic * (3750 * a.m + a.D), 6250 * a.m),
   stored |-> TRUE]
BPOfLandmarks(values, peaks, valleys, lastSys, lastDia) ==
  IF Len(peaks) < 2 \/ Len(peaks) - 1 < 2
  THEN [systolic |-> lastSys, diastolic |-> lastDia, stored |-> FALSE]
  ELSE BPEstimate(Round(2500 * (Len(peaks) - 1),
                        peaks[Len(peaks)] - peaks[1]),
                  BPAmplitudes(values, peaks, valleys))
calculateActualBloodPressure(values, lastSys, lastDia) ==
  BPOfLandmarks(values, PeakIdx(values), ValleyIdx(values), lastSys, lastDia)

\* Math.round(x * BP_SMOOTHING_FACTOR + last * (1 - BP_SMOOTHING_FACTOR))
SmoothBP(x, last) ==
  IF IsNaN(x) \/ IsNaN(last) THEN NaN ELSE Round(3 * x + 7 * last, 10)

\* a variant whose weights do not add up to 1: last * (1 + SPO2_SIGNAL_FACTOR)
BlendSpO2_PlusFactor(raw, last) == Round(4 * raw + 14 * last, 10)
\* Math.round(raw * SPO2_SIGNAL_FACTOR + last * (1 - SPO2_SIGNAL_FACTOR))
BlendSpO2(raw, last) == Round(4 * raw + 6 * last, 10)

\* establishBaseline, lines 169-173: the first estimates become the baseline
BaselineOf(spo2, bp) ==
  [established |-> TRUE, spo2 |-> spo2,
   sys |-> bp.systolic, dia |-> bp.diastolic]
\* establishBaseline, lines 162-178: baselineValues = ppgValues.slice(0, 60)
establishBaselineOn(baselineValues, lSpO2, lSys, lDia) ==
  IF \/ 10 * SumSeq(baselineValues)                       \* avgValue < 0.1
          < PPG_SCALE * Len(baselineValues)
     \/ SumSeq(baselineValues)                            \* avgValue > 255
          > 255 * PPG_SCALE * Len(baselineValues)
  THEN [established |-> FALSE, spo2 |-> lSpO2, sys |-> lSys, dia |-> lDia]
  ELSE BaselineOf(calculateActualSpO2(baselineValues, lSpO2, TRUE),
                  calculateActualBloodPressure(baselineValues, lSys, lDia))
\* establishBaseline over the buffer vals (length >= 60)
establishBaseline(vals, lSpO2, lSys, lDia) ==
  establishBaselineOn(FirstN(vals, BASELINE_SAMPLES), lSpO2, lSys, lDia)

\* a variant that establishes the baseline on half the samples
BaselineDue_Half(established, vals) ==
  ~established /\ Len(vals) >= BASELINE_SAMPLES \div 2
\* the baseline test of processSignal (line 105)
BaselineDue(established, vals) ==
  ~established /\ Len(vals) >= BASELINE_SAMPLES

\* processSignal, lines 132-149: the pressure pair, smoothed against
\* this.lastSystolic / this.lastDiastolic as line 136 reads them (line 318
\* has overwritten them when bp.stored)
SmoothedPressure(bp, bl) ==
  [sys |-> SmoothBP(bp.systolic, IF bp.stored THEN bp.systolic ELSE bl.sys),
   dia |-> SmoothBP(bp.diastolic,
                    IF bp.stored THEN bp.diastolic ELSE bl.dia)]
\* processSignal, lines 117-149, once the baseline is established
processSignalMeasured(smaBuf, vals, bl, mav, pressure) ==
  [sma |-> smaBuf, vals |-> vals, base |-> TRUE, mav |-> mav,
   spo2 |-> getSmoothedSpO2(mav, bl.spo2),
   sys |-> pressure.sys, dia |-> pressure.dia]
\* processSignal, lines 109-149: bl is the state after the baseline test,
\* mav0 is this.movingAverageSpO2 before the call
processSignalBased(smaBuf, vals, bl, mav0) ==
  IF ~bl.established
  THEN [sma |-> smaBuf, vals |-> vals, base |-> FALSE,
        mav |-> mav0,
        spo2 |-> bl.spo2, sys |-> bl.sys, dia |-> bl.dia]
  ELSE processSignalMeasured(
         smaBuf, vals, bl,
         updateMovingAverageSpO2(
           mav0,
           BlendSpO2(calculateActualSpO2(vals, bl.spo2, bl.established),
                     bl.spo2)),
         SmoothedPressure(calculateActualBloodPressure(vals, bl.sys, bl.dia),
                          bl))
\* processSignal, lines 104-149: vals is the buffer after push and shift, st
\* holds the fields of the processor before the call
processSignalBuffered(smaBuf, vals, st) ==
  processSignalBased(
    smaBuf, vals,
    IF BaselineDue(st.base, vals)
    THEN establishBaseline(vals, st.spo2, st.sys, st.dia)
    ELSE [established |-> st.base, spo2 |-> st.spo2,
          sys |-> st.sys, dia |-> st.dia],
    st.mav)
processSignalFiltered(sma, st) ==
  processSignalBuffered(sma[1], PushCap(st.vals, sma[2], WINDOW_SIZE), st)
\* processSignal(ppgValue) on a processor whose fields are st: the fields
\* after the call; spo2, sys and dia are also the values it returns
processSignalOn(st, ppgValue) ==
  processSignalFiltered(applySMAFilter(st.sma, ppgValue), st)
\* the fields of the processor
VSFields ==
  [sma |-> smaBuffer, vals |-> ppgValues, base |-> baselineEstablished,
   mav |-> movingAverageSpO2, spo2 |-> lastSpO2, sys |-> lastSystolic,
   dia |-> lastDiastolic]
\* the fields of a processor as constructed (lines 57-76)
VSFresh ==
  [sma |-> <<>>, vals |-> <<>>, base |-> FALSE, mav |-> <<>>, spo2 |-> 0,
   sys |-> 0, dia |-> 0]
\* processSignal(ppgValue): the whole call, as a function of the old fields.
processSignalResult(ppgValue) == processSignalOn(VSFields, ppgValue)

(* The sample driver.  The camera delivers one raw intensity per frame; the *)
(* driver plays whole pulses of a few waveforms back to back.  It may       *)
(* change the waveform between two pulses, at most MaxSwitch times and only *)
(* after MinPulses pulses of the current waveform.                          *)
MaxSamples == 100
MaxSwitch == 2
MinPulses == 2
MaxVSResets == 1

Shapes == {"flat", "slow", "fast"}
\* one pulse of each waveform (raw intensities)
Wave(shape) ==
  CASE shape = "flat" -> <<60, 60, 60, 60, 60, 60, 60, 60, 60, 60>>
    [] shape = "slow" -> <<60, 61, 62, 63, 64, 65, 66, 67, 68, 69,
                           70, 69, 68, 67, 66, 65, 64, 63, 62, 61>>
    [] shape = "fast" -> <<60, 61, 62, 63, 64, 65, 64, 63, 62, 61>>
    [] shape = "rapid" -> <<60, 62, 64, 66, 64, 62>>
    [] shape = "ripple" -> <<60, 61, 60, 61, 60>>
    [] shape = "wobble" -> <<60, 60, 61, 60, 61, 60, 60>>
    [] shape = "dropout" -> <<60, NaN, 61, 60>>
    [] shape = "uneven" -> <<60, 62, 64, 66, 64, 62, 60, 62, 64, 66, 64, 62, 60, 62, 64,
                             66, 64, 62, 60, 60, 60, 60, 60, 60, 60, 60, 60, 60, 60, 60,
                             60, 60, 60, 60, 60, 60, 60, 60, 60, 60, 60, 60, 60, 60, 60,
                             60, 60, 60, 60, 62, 64, 66, 64, 62, 60, 60, 60, 60, 60, 60>>

VSInit ==
  /\ ppgValues = <<>>
  /\ lastSpO2 = 0
  /\ lastSystolic = 0
  /\ lastDiastolic = 0
  /\ baselineEstablished = FALSE
  /\ movingAverageSpO2 = <<>>
  /\ smaBuffer = <<>>
  /\ vsOut = [op |-> "new", call |-> 0, spo2 |-> 0, systolic |-> 0,
              diastolic |-> 0]
  /\ gen \in [shape : Shapes, idx : {1}, run : {0}, switches : {0},
              fed : {0}, resets : {0}]

\* the driver after it has handed out sample gen.idx of the current pulse
GenAfter(next) ==
  IF gen.idx < Len(Wave(gen.shape))
  THEN [gen EXCEPT !.idx = gen.idx + 1, !.fed = gen.fed + 1]
  ELSE IF next = gen.shape
  THEN [gen EXCEPT !.idx = 1, !.fed = gen.fed + 1,
                   !.run = MinOf(gen.run + 1, MinPulses)]
  ELSE [gen EXCEPT !.idx = 1, !.fed = gen.fed + 1, !.shape = next,
                   !.run = 0, !.switches = gen.switches + 1]

\* the waveforms the driver may play after the current sample
GenChoices ==
  IF gen.idx < Len(Wave(gen.shape)) THEN {gen.shape}
  ELSE IF gen.switches < MaxSwitch /\ gen.run + 1 >= MinPulses THEN Shapes
  ELSE {gen.shape}

\* a long recording: pulses at first, at most one change of waveform within
\* the first LongSwitchBy samples, and the last waveform for the rest
LongSamples == 375
LongSwitchBy == 70
GenChoicesLong ==
  IF gen.idx < Len(Wave(gen.shape)) THEN {gen.shape}
  ELSE IF gen.switches = 0 /\ gen.fed < LongSwitchBy THEN Shapes
  ELSE {gen.shape}

\* a weak signal: a pulse waveform and two ripples of one intensity step,
\* changed at most MaxWeakSwitch times, at the end of any pulse
WeakSamples == 75
MaxWeakSwitch == 2
WeakShapes == {"fast", "ripple", "wobble"}
GenChoicesWeak ==
  IF gen.idx < Len(Wave(gen.shape)) THEN {gen.shape}
  ELSE IF gen.switches < MaxWeakSwitch THEN WeakShapes
  ELSE {gen.shape}

\* the start of a recording, before the baseline: pulses and groups of
\* samples one of which is not a number, in any order
EarlySamples == 40
EarlyShapes == {"fast", "dropout"}
GenChoicesEarly ==
  IF gen.idx < Len(Wave(gen.shape)) THEN {gen.shape} ELSE EarlyShapes

\* processSignal(ppgValue) on the next sample of the driver, which then
\* continues with one of the waveforms in choices
VSFeed(choices, limit) ==
  /\ gen.fed < limit
  /\ \E next \in choices :
       /\ \E res \in {processSignalResult(Wave(gen.shape)[gen.idx])} :
             /\ smaBuffer' = res.sma
             /\ ppgValues' = res.vals
             /\ baselineEstablished' = res.base
             /\ movingAverageSpO2' = res.mav
             /\ lastSpO2' = res.spo2
             /\ lastSystolic' = res.sys
             /\ lastDiastolic' = res.dia
             /\ vsOut' = [op |-> "processSignal", call |-> vsOut.call + 1,
                          spo2 |-> res.spo2, systolic |-> res.sys,
                          diastolic |-> res.dia]
       /\ gen' = GenAfter(next)
VSProcessSignal(limit) == VSFeed(GenChoices, limit)

\* a variant of reset() that leaves the SMA buffer as it is
resetFields_KeepsSMA ==
  [sma |-> smaBuffer, vals |-> <<>>, base |-> FALSE, mav |-> <<>>,
   spo2 |-> 0, sys |-> 0, dia |-> 0]
\* reset(), lines 465-474: the fields after the call
resetFields ==
  [sma |-> <<>>, vals |-> <<>>, base |-> FALSE, mav |-> <<>>,
   spo2 |-> 0, sys |-> 0, dia |-> 0]

\* reset(), at the end of a pulse and at most maxResets times
VSResetUpTo(maxResets) ==
  /\ gen.resets < maxResets
  /\ gen.idx = 1 /\ gen.run >= MinPulses
  /\ \E r \in {resetFields} :
       /\ ppgValues' = r.vals
       /\ lastSpO2' = r.spo2
       /\ lastSystolic' = r.sys
       /\ lastDiastolic' = r.dia
       /\ baselineEstablished' = r.base
       /\ movingAverageSpO2' = r.mav
       /\ smaBuffer' = r.sma
  /\ vsOut' = [op |-> "reset", call |-> 0, spo2 |-> 0, systolic |-> 0,
               diastolic |-> 0]
  /\ gen' = [gen EXCEPT !.resets = gen.resets + 1]
VSReset == VSResetUpTo(MaxVSResets)

-----------------------------------------------------------------------------
(* ArrhythmiaDetector                                                      *)

LEARNING_PHASE_THRESHOLD == 20
MAX_INTERVALS == 50
ANALYSIS_COOLDOWN_MS == 1000
MIN_RR_MS == 300
MAX_RR_MS == 2000
MIN_ANALYSIS_INTERVALS == 8

\* addRRInterval line 21: the interval is kept
\* a variant that forgets the upper limit of the physiological range
AcceptsInterval_NoUpper(interval) == ~(interval < MIN_RR_MS)
AcceptsInterval(interval) == ~(interval < MIN_RR_MS \/ interval > MAX_RR_MS)

\* sum of the squared successive differences and their number:
\* calculateRMSSD = sqrt(sumSq / (length - 1)), 0 below two intervals
SqDiffSum(rr) ==
  SumSeq([i \in 1..(Len(rr) - 1) |-> (rr[i + 1] - rr[i]) * (rr[i + 1] - rr[i])])
AbsDiffSum(rr) ==
  SumSeq([i \in 1..(Len(rr) - 1) |-> Abs(rr[i + 1] - rr[i])])

\* calculateRMSSD() > t, for an integer t >= 0
RMSSDExceeds(rr, t) ==
  IF Len(rr) < 2 THEN 0 > t
  ELSE SqDiffSum(rr) > t * t * (Len(rr) - 1)

\* calculateRRVariation() as a rational <<num, den>>:
\* (sum |diff| / number of diffs) / (sum rr / length)
calculateRRVariation(rr) ==
  IF Len(rr) < 3 THEN <<0, 1>>
  ELSE <<AbsDiffSum(rr) * Len(rr), (Len(rr) - 1) * SumSeq(rr)>>

\* calculateRRVariation() > pn / pd
RRVariationExceeds(rr, pn, pd) ==
  LET v == calculateRRVariation(rr)
  IN v[1] * pd > pn * v[2]

\* Math.floor(rmssd / 50)
RMSSDDiv50(rr) ==
  IF Len(rr) < 2 THEN 0
  ELSE LET sq == SqDiffSum(rr)
           n == Len(rr) - 1
       IN CHOOSE k \in 0..40 : /\ sq >= 2500 * k * k * n
                               /\ sq < 2500 * (k + 1) * (k + 1) * n

\* a variant with the two ratios inverted (prev1 < prev2 / 0.8 and
\* current > prev1 / 1.1)
detectPAC_Inverted(rr) ==
  /\ ~(Len(rr) < 4)
  /\ \E i \in 3..Len(rr) :
       LET prev2 == rr[i - 2]
           prev1 == rr[i - 1]
           current == rr[i]
       IN /\ prev2 > 600
          /\ 8 * prev1 < 10 * prev2
          /\ 11 * current > 10 * prev1

\* detectPAC: short interval followed by a longer one
detectPAC(rr) ==
  /\ ~(Len(rr) < 4)
  /\ \E i \in 3..Len(rr) :
       LET prev2 == rr[i - 2]
           prev1 == rr[i - 1]
           current == rr[i]
       IN /\ prev2 > 600
          /\ 10 * prev1 < 8 * prev2                \* prev1 < 0.8 * prev2
          /\ 10 * current > 11 * prev1             \* current > 1.1 * prev1

\* getAvgAmplitude as a rational <<sum, count>> over the amplitudes > 0
getAvgAmplitude(amps) ==
  LET valid == SelectSeq(amps, LAMBDA a : a > 0)
  IN IF Len(amps) = 0 \/ Len(valid) = 0 THEN <<0, 1>>
     ELSE <<SumSeq(valid), Len(valid)>>

\* detectPVC: premature beat, compensatory pause and a larger amplitude
detectPVC(rr, amps) ==
  /\ ~(Len(rr) < 4 \/ Len(amps) < 4)
  /\ LET sum == SumSeq(rr)
         ad == Len(rr) - 1
         avg == getAvgAmplitude(amps)
     IN \E i \in 3..(Len(rr) - 1) :
          LET current == rr[i]
              next == rr[i + 1]
              \* avgNormal = (sum - current) / (length - 1)
              an == sum - current
          IN /\ 10 * current * ad < 8 * an          \* current < 0.8 * avgNormal
             /\ 10 * next * ad > 12 * an            \* next > 1.2 * avgNormal
             /\ 10 * amps[i] * avg[2] > 13 * avg[1] \* amplitude > 1.3 * average

\* irregularCount of detectAF: successive differences above 100 ms
IrregularCount(rr) ==
  Cardinality({i \in 1..(Len(rr) - 1) : Abs(rr[i + 1] - rr[i]) > 100})

\* a variant that decides on the RMSSD alone
detectAF_RMSSDOnly(rr) == RMSSDExceeds(rr, 100)

\* detectAF(rmssd, rrVariation)
\* highIrregularity = irregularCount >= this.rrIntervals.length * 0.7
HighIrregularity(rr) == 10 * IrregularCount(rr) >= 7 * Len(rr)
detectAF(rr) ==
  LET highRMSSD == RMSSDExceeds(rr, 100)
      highVariation == RRVariationExceeds(rr, 1, 10)
  IN highRMSSD /\ highVariation /\ HighIrregularity(rr)

NoArrhythmia(path) ==
  [detected |-> FALSE, severity |-> 0, type |-> "NONE", path |-> path]

\* a variant that compares the elapsed time the wrong way round
InCooldown_Reversed(lastAnalysis, t) ==
  lastAnalysis - t > ANALYSIS_COOLDOWN_MS
\* the cooldown test of analyzeRhythm (line 63)
InCooldown(lastAnalysis, t) == t - lastAnalysis < ANALYSIS_COOLDOWN_MS

\* a variant that ignores the learning flag
InsufficientData_NoLearning(rr, learning) == Len(rr) < MIN_ANALYSIS_INTERVALS
\* the learning / minimum-data test of analyzeRhythm (line 76)
InsufficientData(rr, learning) ==
  learning \/ Len(rr) < MIN_ANALYSIS_INTERVALS

\* analyzeRhythm, lines 103-118: AF before PVC before PAC
ArrhythmiaTypeOf(hasAF, hasPVC, hasPAC) ==
  IF hasAF THEN "AF" ELSE IF hasPVC THEN "PVC"
  ELSE IF hasPAC THEN "PAC" ELSE "NONE"
\* analyzeRhythm, lines 108-134: the result for the type found
ResultOfType(rr, type) ==
  [detected |-> type # "NONE",
   severity |-> CASE type = "AF" -> MinOf(10, 5 + RMSSDDiv50(rr))
                  [] type = "PVC" -> 7
                  [] type = "PAC" -> 5
                  [] OTHER -> 0,
   type |-> type, path |-> "analysed"]
\* analyzeRhythm() at Date.now() = t on a detector with the given fields:
\* the returned ArrhythmiaResult, with path = the return statement taken
analyzeRhythmOn(rr, amps, learning, lastAnalysis, t) ==
  IF InCooldown(lastAnalysis, t) THEN NoArrhythmia("throttled")
  ELSE IF InsufficientData(rr, learning) THEN NoArrhythmia("insufficient")
  ELSE ResultOfType(rr, ArrhythmiaTypeOf(detectAF(rr), detectPVC(rr, amps),
                                         detectPAC(rr)))
analyzeRhythmResult(t) ==
  analyzeRhythmOn(rrIntervals, amplitudes, learningPhase, lastAnalysisTime, t)

\* a variant that ends the learning phase one interval late
addRRIntervalOn_Late(rr, amps, learning, count, interval, amplitude) ==
  IF ~AcceptsInterval(interval)
  THEN [rr |-> rr, amps |-> amps, learning |-> learning, count |-> count]
  ELSE [rr |-> PushCap(rr, interval, MAX_INTERVALS),
        amps |-> PushCap(amps, amplitude, MAX_INTERVALS),
        learning |-> IF learning
                     THEN ~(count + 1 > LEARNING_PHASE_THRESHOLD)
                     ELSE FALSE,
        count |-> IF learning THEN count + 1 ELSE count]

\* addRRInterval(interval, amplitude) on a detector with the given fields
addRRIntervalOn(rr, amps, learning, count, interval, amplitude) ==
  IF ~AcceptsInterval(interval)
  THEN [rr |-> rr, amps |-> amps, learning |-> learning, count |-> count]
  ELSE [rr |-> PushCap(rr, interval, MAX_INTERVALS),
        amps |-> PushCap(amps, amplitude, MAX_INTERVALS),
        learning |-> IF learning
                     THEN ~(count + 1 >= LEARNING_PHASE_THRESHOLD)
                     ELSE FALSE,
        count |-> IF learning THEN count + 1 ELSE count]

(* The beat driver.  A rhythm is a pair of base intervals played            *)
(* alternately (equal for a constant rhythm).  A beat deviates when its     *)
(* interval is not the scheduled one or its amplitude is not BaseAmp; the   *)
(* driver deviates at most maxDev times and only after cleanBeats accepted  *)
(* beats; peak times are reported only after cleanBeats beats too.  The     *)
(* clock advances in steps of tickMs.                                      *)
MaxBeats == 21
CleanBeats == 18
MaxDev == 2
MaxTicks == 2
TickMs == 500
StartTime == 5000
\* null (no timestamp yet)
NoTime == -1
BaseAmp == 10

Rhythms == {<<300, 300>>, <<800, 800>>, <<2000, 2000>>, <<600, 900>>}
Scheduled == IF adDrv.accepted % 2 = 0 THEN adDrv.rhythm[1] ELSE adDrv.rhythm[2]
\* the <<interval, amplitude>> arguments of the next addRRInterval call; the
\* amplitude 0 stands for an omitted (undefined) or zero amplitude
\* a premature beat (half the interval) and a compensatory pause (one and a
\* half), no further out of the accepted range than 1 ms
ShortBeat == MaxOf(Scheduled \div 2, MIN_RR_MS - 1)
LongBeat == MinOf((3 * Scheduled) \div 2, MAX_RR_MS + 1)
BeatInputs ==
  {<<Scheduled, BaseAmp>>, <<Scheduled, 0>>, <<Scheduled, 2 * BaseAmp>>,
   <<ShortBeat, BaseAmp>>, <<ShortBeat, 2 * BaseAmp>>, <<LongBeat, BaseAmp>>}

\* the driver's budget: an accepted deviating beat needs budget left
BeatAllowed(beat, cleanBeats, maxDev) ==
  AcceptsInterval(beat[1]) /\ beat # <<Scheduled, BaseAmp>>
    => adDrv.dev < maxDev /\ adDrv.accepted >= cleanBeats
DrvAfterBeat(beat) ==
  IF ~AcceptsInterval(beat[1]) THEN adDrv
  ELSE [adDrv EXCEPT !.accepted = adDrv.accepted + 1,
                     !.dev = IF beat # <<Scheduled, BaseAmp>>
                             THEN adDrv.dev + 1 ELSE adDrv.dev]

ADInitWith(rhythms) ==
  /\ rrIntervals = <<>>
  /\ amplitudes = <<>>
  /\ lastPeakTimes = <<>>
  /\ learningPhase = TRUE
  /\ learningPhaseCount = 0
  /\ lastAnalysisTime = 0
  /\ lastPeakTime = NoTime
  /\ now = StartTime
  /\ adLast = [op |-> "new", interval |-> 0, elapsed |-> 0,
                result |-> NoArrhythmia("-")]
  /\ adDrv \in [rhythm : rhythms, accepted : {0}, dev : {0},
                ticks : {0}, events : {0}, lastDetect : {-1}]

\* addRRInterval(interval, amplitude)
ADAddRRInterval(cleanBeats, maxBeats, maxDev) ==
  /\ adDrv.accepted < maxBeats
  /\ \E beat \in BeatInputs :
       /\ BeatAllowed(beat, cleanBeats, maxDev)
       /\ \E d \in {addRRIntervalOn(rrIntervals, amplitudes, learningPhase,
                                    learningPhaseCount, beat[1], beat[2])} :
            /\ rrIntervals' = d.rr
            /\ amplitudes' = d.amps
            /\ learningPhase' = d.learning
            /\ learningPhaseCount' = d.count
       /\ adDrv' = DrvAfterBeat(beat)
       /\ adLast' = [op |-> "addRRInterval", interval |-> beat[1],
                     elapsed |-> 0, result |-> NoArrhythmia("-")]
  /\ UNCHANGED <<lastPeakTimes, lastAnalysisTime, lastPeakTime, now>>

\* setLastPeakTime(timestamp), called with the current time; the driver
\* reports the first peak of a session only
ADSetLastPeakTimeIf(first, cleanBeats) ==
  /\ first => lastPeakTime = NoTime
  /\ adDrv.accepted >= cleanBeats
  /\ lastPeakTime' = now
  /\ lastPeakTimes' = PushCap(lastPeakTimes, now, MAX_INTERVALS)
  /\ adLast' = [op |-> "setLastPeakTime", interval |-> 0,
                elapsed |-> 0, result |-> NoArrhythmia("-")]
  /\ UNCHANGED <<rrIntervals, amplitudes, learningPhase, learningPhaseCount,
                 lastAnalysisTime, now, adDrv>>
\* the first setLastPeakTime(timestamp) of a detector
ADSetLastPeakTime(cleanBeats) == ADSetLastPeakTimeIf(TRUE, cleanBeats)

\* a variant whose full analysis drops the oldest interval
analyzeRhythmFields_Consuming(rr, amps, peaks, learning, count, path) ==
  [rr |-> IF path = "analysed" THEN Tail(rr) ELSE rr, amps |-> amps,
   peaks |-> peaks, learning |-> learning, count |-> count]
\* the rhythm data after analyzeRhythm() returned by the given path: the
\* method and its helpers (lines 59-251) read the fields and assign none
analyzeRhythmFields(rr, amps, peaks, learning, count, path) ==
  [rr |-> rr, amps |-> amps, peaks |-> peaks, learning |-> learning,
   count |-> count]

\* analyzeRhythm()
ADAnalyzeRhythm ==
  /\ \E res \in {analyzeRhythmResult(now)} :
       /\ \E f \in {analyzeRhythmFields(rrIntervals, amplitudes,
                                        lastPeakTimes, learningPhase,
                                        learningPhaseCount, res.path)} :
            /\ rrIntervals' = f.rr
            /\ amplitudes' = f.amps
            /\ lastPeakTimes' = f.peaks
            /\ learningPhase' = f.learning
            /\ learningPhaseCount' = f.count
       /\ lastAnalysisTime' = IF res.path = "throttled" THEN lastAnalysisTime
                              ELSE now
       /\ adLast' = [op |-> "analyzeRhythm", interval |-> 0,
                     elapsed |-> now - lastAnalysisTime, result |-> res]
       /\ adDrv' = IF res.detected
                   THEN [adDrv EXCEPT !.events = adDrv.events + 1,
                                      !.lastDetect = now]
                   ELSE adDrv
  /\ UNCHANGED <<lastPeakTime, now>>

\* reset(); the driver plays the rhythm without deviations afterwards
ADReset(maxDev) ==
  /\ rrIntervals' = <<>>
  /\ amplitudes' = <<>>
  /\ lastPeakTimes' = <<>>
  /\ learningPhase' = TRUE
  /\ learningPhaseCount' = 0
  /\ lastAnalysisTime' = 0
  /\ lastPeakTime' = NoTime
  /\ adLast' = [op |-> "reset", interval |-> 0, elapsed |-> 0,
                result |-> NoArrhythmia("-")]
  /\ adDrv' = [adDrv EXCEPT !.accepted = 0, !.dev = maxDev, !.events = 0,
                            !.lastDetect = -1]
  /\ UNCHANGED now

\* time passes
ADTick(cleanBeats, tickMs, maxTicks) ==
  /\ adDrv.ticks < maxTicks
  /\ adDrv.accepted >= cleanBeats
  /\ now' = now + tickMs
  /\ adDrv' = [adDrv EXCEPT !.ticks = adDrv.ticks + 1]
  /\ UNCHANGED <<rrIntervals, amplitudes, lastPeakTimes, learningPhase,
                 learningPhaseCount, lastAnalysisTime, lastPeakTime, adLast>>

-----------------------------------------------------------------------------
(* useArrhythmiaAnalyzer (the hook around the detector)                    *)
(*                                                                         *)
(* The hook calls detector.updateIntervals(), detector.detect() and         *)
(* detector.cleanMemory(), which the ArrhythmiaDetector of the source tree  *)
(* does not define.  They are modelled from the specification (section     *)
(* 4.4): updateIntervals hands the newest interval to addRRInterval,       *)
(* detect runs analyzeRhythm, counts the signalled events and reports      *)
(* "<LABEL>|<count>".                                                      *)

MAX_ARRHYTHMIAS_PER_MINUTE == 30
INIT_DELAY_MS == 2000

StatusOf(label, count) == [label |-> label, count |-> count]
NoArrhythmiasStatus == StatusOf("SIN ARRITMIAS", 0)
CalibratingStatus == StatusOf("CALIBRANDO", 0)

\* the hook's refs and state after mounting; timers holds the due times of the
\* pending setTimeout callbacks, armedAt the time the detector was created
\* or reset last
HookInit ==
  hook = [created |-> FALSE, isInitialized |-> FALSE, timers |-> {},
          armedAt |-> NoTime,
          status |-> NoArrhythmiasStatus, counter |-> 0, detCount |-> 0,
          last |-> [op |-> "new", detected |-> FALSE,
                    status |-> NoArrhythmiasStatus, learning |-> TRUE,
                    ranDetect |-> FALSE,
                    hadIntervals |-> FALSE]]

\* detector.updateIntervals(intervals, lastPeakTime, peakAmplitude)
updateIntervalsOn(rr, amps, learning, count, interval, amplitude) ==
  addRRIntervalOn(rr, amps, learning, count, interval, amplitude)

\* detector.detect(): <<ArrhythmiaResult, count, status>>
DetectionOf(r, c) ==
  [result |-> r, count |-> c,
   status |-> StatusOf(IF r.detected THEN "ARRITMIA DETECTADA"
                       ELSE "SIN ARRITMIAS", c),
   hasData |-> r.path = "analysed"]
DetectionCounted(r, count) ==
  DetectionOf(r, IF r.detected THEN count + 1 ELSE count)
detectOn(rr, amps, learning, lastAnalysis, t, count) ==
  DetectionCounted(analyzeRhythmOn(rr, amps, learning, lastAnalysis, t), count)

\* processArrhythmia(rrData) with rrData.intervals empty (beat = <<>>) or
\* ending in the interval beat[1], rrData.amplitudes ending in beat[2], and
\* rrData.lastPeakTime = null
HookProcessArrhythmia(cleanBeats, maxBeats, maxDev) ==
  \E beat \in BeatInputs \cup {<<>>} :
    LET \* getDetector(): a new detector when the ref is empty
        fresh == ~hook.created
        rr0 == IF fresh THEN <<>> ELSE rrIntervals
        am0 == IF fresh THEN <<>> ELSE amplitudes
        lp0 == IF fresh THEN TRUE ELSE learningPhase
        lc0 == IF fresh THEN 0 ELSE learningPhaseCount
        la0 == IF fresh THEN 0 ELSE lastAnalysisTime
        dc0 == IF fresh THEN 0 ELSE hook.detCount
        ini0 == IF fresh THEN FALSE ELSE hook.isInitialized
        tm0 == IF fresh THEN hook.timers \cup {now + INIT_DELAY_MS}
               ELSE hook.timers
        hasIntervals == beat # <<>>
    IN
    \E d1 \in {IF hasIntervals
               THEN updateIntervalsOn(rr0, am0, lp0, lc0, beat[1], beat[2])
               ELSE [rr |-> rr0, amps |-> am0, learning |-> lp0,
                     count |-> lc0]} :
    \E det \in {detectOn(d1.rr, d1.amps, d1.learning, la0, now, dc0)} :
    LET runs == hasIntervals /\ ~d1.learning /\ ini0
        signalled == /\ runs /\ det.result.detected
                     /\ det.count <= MAX_ARRHYTHMIAS_PER_MINUTE
                     /\ det.hasData
        newStatus == IF hasIntervals /\ d1.learning THEN CalibratingStatus
                     ELSE IF runs THEN det.status
                     ELSE hook.status
    IN /\ hasIntervals => /\ adDrv.accepted < maxBeats
                          /\ BeatAllowed(beat, cleanBeats, maxDev)
       /\ rrIntervals' = d1.rr
       /\ amplitudes' = d1.amps
       /\ learningPhase' = d1.learning
       /\ learningPhaseCount' = d1.count
       /\ lastAnalysisTime' = IF runs /\ det.result.path # "throttled"
                              THEN now ELSE la0
       /\ lastPeakTimes' = IF fresh THEN <<>> ELSE lastPeakTimes
       /\ lastPeakTime' = IF fresh THEN NoTime ELSE lastPeakTime
       /\ adLast' = IF runs
                    THEN [op |-> "analyzeRhythm", interval |-> 0,
                          elapsed |-> now - la0, result |-> det.result]
                    ELSE [op |-> "updateIntervals", interval |-> 0,
                          elapsed |-> 0, result |-> NoArrhythmia("-")]
       /\ adDrv' = LET b == IF hasIntervals THEN DrvAfterBeat(beat) ELSE adDrv
                   IN IF runs /\ det.result.detected
                      THEN [b EXCEPT !.events = adDrv.events + 1,
                                     !.lastDetect = now]
                      ELSE b
       /\ hook' = [created |-> TRUE, isInitialized |-> ini0, timers |-> tm0,
                   armedAt |-> IF fresh THEN now ELSE hook.armedAt,
                   status |-> newStatus,
                   counter |-> IF runs /\ det.result.detected
                                  /\ det.count <= MAX_ARRHYTHMIAS_PER_MINUTE
                               THEN det.count ELSE hook.counter,
                   detCount |-> IF runs THEN det.count ELSE dc0,
                   last |-> [op |-> "processArrhythmia",
                             detected |-> signalled,
                             status |-> newStatus,
                             learning |-> d1.learning,
                             ranDetect |-> runs,
                             hadIntervals |-> hasIntervals]]
       /\ UNCHANGED now

\* the hook's reset(); the driver plays the rhythm without deviations afterwards
HookReset(maxDev) ==
  /\ IF hook.created
     THEN /\ rrIntervals' = <<>>
          /\ amplitudes' = <<>>
          /\ lastPeakTimes' = <<>>
          /\ learningPhase' = TRUE
          /\ learningPhaseCount' = 0
          /\ lastAnalysisTime' = 0
          /\ lastPeakTime' = NoTime
          /\ adDrv' = [adDrv EXCEPT !.accepted = 0, !.dev = maxDev,
                                    !.events = 0, !.lastDetect = -1]
     ELSE UNCHANGED <<rrIntervals, amplitudes, lastPeakTimes, learningPhase,
                      learningPhaseCount, lastAnalysisTime, lastPeakTime,
                      adDrv>>
  /\ hook' = [hook EXCEPT !.counter = 0, !.isInitialized = FALSE,
                          !.status = NoArrhythmiasStatus, !.detCount = 0,
                          !.timers = hook.timers \cup {now + INIT_DELAY_MS},
                          !.armedAt = now,
                          !.last = [op |-> "reset", detected |-> FALSE,
                                    status |-> NoArrhythmiasStatus,
                                    learning |-> TRUE, ranDetect |-> FALSE,
                    hadIntervals |-> FALSE]]
  /\ adLast' = [op |-> "reset", interval |-> 0, elapsed |-> 0,
                result |-> NoArrhythmia("-")]
  /\ UNCHANGED now

\* the hook's cleanMemory(): the detector is dropped, the refs are kept
HookCleanMemory(maxDev) ==
  /\ hook.created
  /\ rrIntervals' = <<>>
  /\ amplitudes' = <<>>
  /\ lastPeakTimes' = <<>>
  /\ learningPhase' = TRUE
  /\ learningPhaseCount' = 0
  /\ lastAnalysisTime' = 0
  /\ lastPeakTime' = NoTime
  /\ adDrv' = [adDrv EXCEPT !.accepted = 0, !.dev = maxDev, !.events = 0,
                            !.lastDetect = -1]
  /\ hook' = [hook EXCEPT !.created = FALSE, !.detCount = 0,
                          !.last = [op |-> "cleanMemory", detected |-> FALSE,
                                    status |-> hook.status,
                                    learning |-> TRUE, ranDetect |-> FALSE,
                    hadIntervals |-> FALSE]]
  /\ adLast' = [op |-> "new", interval |-> 0, elapsed |-> 0,
                result |-> NoArrhythmia("-")]
  /\ UNCHANGED now

\* a setTimeout(..., 2000) callback of getDetector or reset runs
HookTimerFires ==
  /\ \E due \in hook.timers :
       /\ due <= now
       /\ hook' = [hook EXCEPT !.isInitialized = TRUE,
                               !.timers = hook.timers \ {due}]
  /\ UNCHANGED adVars

-----------------------------------------------------------------------------
(* BloodPressureCalculator                                                 *)
(*                                                                         *)
(* enhancedPeakDetection and calculateStandardDeviation come from          *)
(* utils/signalProcessingUtils, which the source tree does not contain;    *)
(* they are modelled from the specification (section 4.2: wide-neighbour   *)
(* landmarks with a margin of 2, quality from the amplitude variability;   *)
(* section 4.6: stddev / mean of the transit times).                       *)

\* the sum of two rationals, reduced
Reduced(n, d) ==
  IF n = 0 THEN <<0, 1>>
  ELSE <<n \div Gcd(Abs(n), d), d \div Gcd(Abs(n), d)>>
AddRat(x, y) == Reduced(x[1] * y[2] + y[1] * x[2], x[2] * y[2])
RECURSIVE SumRatFrom(_, _)
SumRatFrom(s, i) ==
  IF i > Len(s) THEN <<0, 1>> ELSE AddRat(s[i], SumRatFrom(s, i + 1))

\* landmarks of section 4.2 with k = 2 (0-based indices, increasing)
EnhancedPeaks(values) ==
  SetToSeq({i \in 2..(Len(values) - 3) :
     \A d \in 1..2 : /\ values[i + 1] > values[i + 1 - d]
                     /\ values[i + 1] > values[i + 1 + d]})
EnhancedValleys(values) ==
  SetToSeq({i \in 2..(Len(values) - 3) :
     \A d \in 1..2 : /\ values[i + 1] < values[i + 1 - d]
                     /\ values[i + 1] < values[i + 1 + d]})
\* quality = clamp(1 - variability / avgAmplitude, 0, 1) over the paired
\* peak-valley amplitudes, as a rational; 0 without amplitudes
EnhancedAmps(values, peaks, valleys) ==
  [i \in 1..MinOf(Len(peaks), Len(valleys)) |->
     Abs(values[peaks[i] + 1] - values[valleys[i] + 1])]
\* S = sum of amps; sum |amp - S/n| = dev / n
QualityOfAmps(amps, S) ==
  LET dev == SumSeq([i \in 1..Len(amps) |-> Abs(Len(amps) * amps[i] - S)])
  IN IF Len(amps) = 0 \/ S = 0 THEN <<0, 1>>
     ELSE IF dev >= S THEN <<0, 1>>
     ELSE <<S - dev, S>>
EnhancedQualityOf(amps) == QualityOfAmps(amps, SumSeq(amps))
EnhancedQuality(values, peaks, valleys) ==
  EnhancedQualityOf(EnhancedAmps(values, peaks, valleys))
EnhancedLandmarks(values, p, v) ==
  [peakIndices |-> p, valleyIndices |-> v,
   signalQuality |-> EnhancedQuality(values, p, v)]
enhancedPeakDetection(values) ==
  EnhancedLandmarks(values, EnhancedPeaks(values), EnhancedValleys(values))

\* calculateStandardDeviation(x) / mean(x) > 6/10 for positive x
VariabilityExceeds(x) ==
  LET m == Len(x)
      S == SumSeq(x)
      Q == SumSeq([i \in 1..m |-> x[i] * x[i]])
  IN 25 * (m * Q - S * S) > 9 * S * S

\* calculateArterialStiffnessScore, lines 97-116: notchScore * range, from
\* the first local valley (0-based positions notches) of the second third
NotchScore(pulse, notches, min, range) ==
  IF notches = {} THEN 10 * range
  ELSE 10 * (pulse[(CHOOSE a \in notches : \A b \in notches : a <= b) + 1]
             - min)
\* calculateArterialStiffnessScore, lines 119-130: decayScore * range, from
\* the steepest drop between neighbours in the first 70% of the pulse
DecayScore(drops, range) ==
  MinOf(10 * range,
        50 * (IF drops = {} THEN 0
              ELSE MaxOf(0, CHOOSE a \in drops : \A b \in drops : a >= b)))
\* one pulse, normalised by its minimum and range:
\* 0.6 * notchScore + 0.4 * decayScore as a rational
PulseScoreOf(pulse, min, range) ==
  <<6 * NotchScore(pulse,
                   {i \in ((Len(pulse) \div 3) + 1)
                            ..(((2 * Len(pulse)) \div 3) - 2) :
                      /\ pulse[i + 1] < pulse[i]
                      /\ pulse[i + 1] < pulse[i + 2]},
                   min, range)
    + 4 * DecayScore({pulse[i] - pulse[i + 1] :
                        i \in 1..(((7 * Len(pulse)) \div 10) - 1)},
                     range),
    10 * range>>
PulseOf(pulse) ==
  PulseScoreOf(pulse, SeqMin(pulse), SeqMax(pulse) - SeqMin(pulse))
\* the pulse values[startIdx .. endIdx - 1] (0-based) of
\* calculateArterialStiffnessScore
PulseScore(values, startIdx, endIdx) ==
  PulseOf(SubSeq(values, startIdx + 1, endIdx))

\* calculateArterialStiffnessScore, lines 133-146: the mean of the pulse
\* scores; idx are the pulses kept by lines 70-85
StiffnessMean(total, count) == <<total[1], total[2] * count>>
StiffnessOfPulses(values, peakIndices, idx) ==
  IF Len(idx) = 0 THEN <<5, 1>>
  ELSE StiffnessMean(
         SumRatFrom([k \in 1..Len(idx) |->
                       PulseScore(values, peakIndices[idx[k]],
                                  peakIndices[idx[k] + 1])], 1),
         Len(idx))
\* pulse i is kept when it spans more than 5 and fewer than 50 samples and
\* is not flat
KeepsPulse(values, from, to) ==
  /\ to - from > 5 /\ to - from < 50
  /\ SeqMax(SubSeq(values, from + 1, to))
       - SeqMin(SubSeq(values, from + 1, to)) > 0
\* calculateArterialStiffnessScore as a rational
calculateArterialStiffnessScore(values, peakIndices, valleyIndices) ==
  IF Len(peakIndices) < 3 \/ Len(valleyIndices) < 3 THEN <<5, 1>>
  ELSE StiffnessOfPulses(
         values, peakIndices,
         SetToSeq({i \in 1..MinOf(Len(peakIndices) - 1, 5) :
                     KeepsPulse(values, peakIndices[i], peakIndices[i + 1])}))

MIN_BP_VALUES == 20

\* a variant that starts measuring on half the minimum data
TooFewValues_Half(values) == Len(values) < MIN_BP_VALUES \div 2
\* the minimum-data test of calculate (line 162)
TooFewValues(values) == Len(values) < MIN_BP_VALUES

NoPressure == [systolic |-> 0, diastolic |-> 0, valid |-> FALSE]

\* calculate, lines 202-210: avgPTT = pn / pd, normalizedPTT =
\* min(max(avgPTT, 600), 1200) = nn / pd, st = the stiffness score;
\*   systolic  = round(180 - (normalizedPTT - 600) * 0.075 + (st - 5) * 2)
\*   diastolic = round(110 - (normalizedPTT - 600) * 0.05 + (st - 5) * 1.5)
NormalizedPTT(pn, pd) ==
  IF pn < 600 * pd THEN 600 * pd
  ELSE IF pn > 1200 * pd THEN 1200 * pd ELSE pn
PressureOf(pd, nn, st) ==
  [systolic |-> Round((9000 * pd - 3 * nn) * st[2]
                        + 80 * pd * (st[1] - 5 * st[2]),
                      40 * pd * st[2]),
   diastolic |-> Round(2 * (2800 * pd - nn) * st[2]
                         + 60 * pd * (st[1] - 5 * st[2]),
                       40 * pd * st[2])]
\* calculate, lines 213-224: the pair is kept only inside its bounds
ValidPressure(p) ==
  IF /\ p.systolic >= 80 /\ p.systolic <= 190
     /\ p.diastolic >= 50 /\ p.diastolic <= 120
     /\ p.systolic - p.diastolic >= 15
  THEN [systolic |-> p.systolic, diastolic |-> p.diastolic, valid |-> TRUE]
  ELSE NoPressure
\* calculate, lines 182-224: d are the peak-to-peak distances in samples,
\* pttValues = d * 1000 / 30
PressureOfPTT_AnyVariability(values, det, d) ==
  IF Len(d) = 0 THEN NoPressure
  ELSE ValidPressure(
         PressureOf(3 * Len(d), NormalizedPTT(100 * SumSeq(d), 3 * Len(d)),
                    calculateArterialStiffnessScore(values, det.peakIndices,
                                                    det.valleyIndices)))
PressureOfPTT(values, det, d) ==
  IF Len(d) = 0 THEN NoPressure
  ELSE IF VariabilityExceeds(d) THEN NoPressure
  ELSE ValidPressure(
         PressureOf(3 * Len(d), NormalizedPTT(100 * SumSeq(d), 3 * Len(d)),
                    calculateArterialStiffnessScore(values, det.peakIndices,
                                                    det.valleyIndices)))
\* calculate, lines 166-224: det is the result of enhancedPeakDetection
PressureOfDetection(values, det) ==
  IF \/ 10 * det.signalQuality[1] < 3 * det.signalQuality[2]
     \/ Len(det.peakIndices) < 2
     \/ Len(det.valleyIndices) < 2
  THEN NoPressure
  ELSE PressureOfPTT(values, det,
                     [i \in 1..(Len(det.peakIndices) - 1) |->
                        det.peakIndices[i + 1] - det.peakIndices[i]])
\* BloodPressureCalculator.calculate(values): the pair it returns, and
\* whether it stores the pair as the last valid pressure
calculateBP(values) ==
  IF TooFewValues(values) THEN NoPressure
  ELSE PressureOfDetection(values, enhancedPeakDetection(values))

(* The inputs of the calculators: the first n samples of a waveform played *)
(* back to back.                                                           *)
CalcShapes == {"flat", "slow", "fast", "rapid", "uneven"}
CalcLens == {0, 10, 19, 20, 60}
MaxCalcCalls == 3
Samples(shape, n) ==
  [i \in 1..n |-> Wave(shape)[((i - 1) % Len(Wave(shape))) + 1]]

BPInit ==
  bpCalc = [lastValidSystolic |-> 0, lastValidDiastolic |-> 0,
            measurementCount |-> 0,
            out |-> [op |-> "new", shape |-> "flat", len |-> 0,
                     systolic |-> 0, diastolic |-> 0]]

\* getLastValidPressure, lines 227-233
getLastValidPressure(bp) ==
  IF bp.lastValidSystolic <= 0 \/ bp.lastValidDiastolic <= 0 THEN ZeroPressure
  ELSE PressureString(bp.lastValidSystolic, bp.lastValidDiastolic)

\* calculate(values)
BPCalculate(maxCalls) ==
  /\ bpCalc.measurementCount < maxCalls
  /\ \E shape \in CalcShapes, n \in CalcLens :
       \E r \in {calculateBP(Samples(shape, n))} :
         bpCalc' = [lastValidSystolic |-> IF r.valid THEN r.systolic
                                          ELSE bpCalc.lastValidSystolic,
                    lastValidDiastolic |-> IF r.valid THEN r.diastolic
                                           ELSE bpCalc.lastValidDiastolic,
                    measurementCount |-> bpCalc.measurementCount + 1,
                    out |-> [op |-> "calculate", shape |-> shape, len |-> n,
                             systolic |-> r.systolic,
                             diastolic |-> r.diastolic]]

\* reset()
BPReset ==
  bpCalc' = [lastValidSystolic |-> 0, lastValidDiastolic |-> 0,
                measurementCount |-> 0,
                out |-> [op |-> "reset", shape |-> "flat", len |-> 0,
                         systolic |-> 0, diastolic |-> 0]]

-----------------------------------------------------------------------------
(* SpO2Calculator and SpO2Processor                                        *)
(*                                                                         *)
(* SPO2_CONSTANTS, SpO2Calibration and the calculateAC / calculateDC       *)
(* utilities are not in the source tree; they are modelled from the        *)
(* specification (section 4.5): AC = max - min, DC = mean,                 *)
(* spo2_raw = A - B * R with A = 110 and B = 20, calibration factor 1.05,  *)
(* a rolling buffer of 10 values, smoothing weight 0.3, and a calibration  *)
(* that applies no offset until it has been run.  The samples are          *)
(* integers, so the minimum AC value (some threshold in (0, 1]) is 1.      *)

CALCULATION_THROTTLE_MS == 125
RESULT_BUFFER_SIZE == 5
MIN_SPO2_VALUES == 20
SPO2_BUFFER_SIZE == 10
MIN_AC_VALUE == 1
R_RATIO_A == 110
R_RATIO_B == 20

\* SpO2Processor after construction or reset()
ProcessorInit ==
  [spo2Buffer |-> <<>>, spo2RawBuffer |-> <<>>, lastSpo2Value |-> 0,
   frameSkipCounter |-> 0, medianCache |-> <<0, 0, 0, 0, 0>>]

\* SpO2Processor.addRawValue(value)
addRawValue(pr, value) ==
  LET fs == (pr.frameSkipCounter + 1) % 2
      p1 == [pr EXCEPT !.frameSkipCounter = fs]
  IN IF fs # 0 THEN p1
     ELSE IF value < 90 \/ value > 100 THEN p1
     ELSE [p1 EXCEPT !.spo2RawBuffer =
             IF Len(pr.spo2RawBuffer) >= SPO2_BUFFER_SIZE * 2
             THEN Tail(pr.spo2RawBuffer) \o <<value>>
             ELSE Append(pr.spo2RawBuffer, value)]

\* processValue: the mean of the middle three of the last five buffered
\* values
TrimmedMean(valuesToProcess) ==
  Round(valuesToProcess[2] + valuesToProcess[3] + valuesToProcess[4], 3)
\* processValue: exponential smoothing, alpha = MOVING_AVERAGE_ALPHA * 0.8
\* = 0.24
SmoothedMean(pr, avg) ==
  IF pr.lastSpo2Value > 0 THEN Round(6 * avg + 19 * pr.lastSpo2Value, 25)
  ELSE avg
ProcessorAfter(pr, recentValues, buf, final) ==
  <<[pr EXCEPT !.medianCache = recentValues, !.spo2Buffer = buf,
               !.lastSpo2Value = final], final>>
\* processValue once the median-filtered value is in the buffer buf
processValueBuffered(pr, recentValues, filtered1, buf) ==
  ProcessorAfter(
    pr, recentValues, buf,
    MaxOf(90, MinOf(99, IF Len(buf) >= 5
                        THEN SmoothedMean(pr,
                                          TrimmedMean(SortAsc(LastN(buf, 5))))
                        ELSE filtered1)))
processValueFiltered(pr, recentValues, filtered1) ==
  processValueBuffered(
    pr, recentValues, filtered1,
    IF Len(pr.spo2Buffer) >= SPO2_BUFFER_SIZE
    THEN Tail(pr.spo2Buffer) \o <<filtered1>>
    ELSE Append(pr.spo2Buffer, filtered1))
processValueMedian(pr, calibratedSpO2, recentValues) ==
  processValueFiltered(
    pr, recentValues,
    IF Len(pr.spo2RawBuffer) >= 5 THEN recentValues[3] ELSE calibratedSpO2)
\* a variant that returns the calibrated value as it came, without the
\* filters and the clamp of line 123
processValue_Unclamped(pr, calibratedSpO2) ==
  ProcessorAfter(pr, pr.medianCache, pr.spo2Buffer, calibratedSpO2)
\* SpO2Processor.processValue(calibratedSpO2): <<processor, returned value>>
processValue(pr, calibratedSpO2) ==
  processValueMedian(
    pr, calibratedSpO2,
    IF Len(pr.spo2RawBuffer) >= 5 THEN SortAsc(LastN(pr.spo2RawBuffer, 5))
    ELSE pr.medianCache)

\* calculateVarianceOptimized(values): variance / mean^2 as a rational
\* <<n * sumSquared - sum^2, sum^2>>
NormalizedVariance(values) ==
  LET n == Len(values)
      S == SumSeq(values)
      Q == SumSeq([i \in 1..n |-> values[i] * values[i]])
  IN <<n * Q - S * S, S * S>>

calculateAC(values) == SeqMax(values) - SeqMin(values)

\* calculateRaw, lines 98-108:
\* rawSpO2 = A - B * (ac / dc) * 1.8 / 1.05 = num / den, clamped to [90, 100]
RawEstimate(ac, n, S) ==
  LET num == 7 * R_RATIO_A * S - 12 * R_RATIO_B * ac * n
      den == 7 * S
  IN IF num > 100 * den THEN 100
     ELSE IF num < 90 * den THEN 90
     ELSE Round(num, den)
\* calculateRaw, lines 76-108: kept is the result that returns the last
\* processed value, nv the normalised variance, S / n the DC component
calculateRawOn(kept, nv, ac, n, S) ==
  IF nv[2] = 0 THEN kept
  ELSE IF 10000 * nv[1] < nv[2] \/ 20 * nv[1] > nv[2] THEN kept
  ELSE IF S <= 0 THEN kept                         \* dc <= 0
  ELSE IF ac < MIN_AC_VALUE THEN kept
  ELSE IF 100 * ac * n < S \/ ac * n > 10 * S THEN kept
  ELSE [kept EXCEPT !.value = RawEstimate(ac, n, S)]
\* calculateRaw, lines 59-108: basis is the signal the variance is taken of
calculateRawBasis(c, values, t, basis) ==
  calculateRawOn([value |-> c.processor.lastSpo2Value, time |-> t,
                  cache |-> basis],
                 NormalizedVariance(basis), calculateAC(values), Len(values),
                 SumSeq(values))
\* SpO2Calculator.calculateRaw(values) at performance.now() = t:
\* [value, time, cache] = the returned value, lastCalculationTime and
\* signalCache afterwards
calculateRaw(c, values, t) ==
  IF Len(values) < MIN_SPO2_VALUES
  THEN [value |-> 0, time |-> c.lastCalculationTime, cache |-> c.signalCache]
  ELSE IF t - c.lastCalculationTime < CALCULATION_THROTTLE_MS
  THEN [value |-> c.processor.lastSpo2Value, time |-> c.lastCalculationTime,
        cache |-> c.signalCache]
  ELSE calculateRawBasis(c, values, t,
                         IF \/ Len(c.signalCache) = 0
                            \/ t % 800 < CALCULATION_THROTTLE_MS
                         THEN values ELSE c.signalCache)

\* a || b || 0 of lines 135, 141 and 189
Fallback(c) ==
  IF c.stableValue # 0 THEN c.stableValue
  ELSE IF c.processor.lastSpo2Value # 0 THEN c.processor.lastSpo2Value
  ELSE 0

\* the weighted average of the result buffer (lines 165-180): the slots are
\* read from resultIndex on and the first two carry weight 3
WeightedResult(results, resultIndex, processedSpO2) ==
  LET slot(i) == results[((resultIndex + i) % RESULT_BUFFER_SIZE) + 1]
      weight(i) == IF slot(i) > 0 THEN (IF i < 2 THEN 3 ELSE 1) ELSE 0
      idx == [i \in 1..RESULT_BUFFER_SIZE |-> i - 1]
      weightedSum == SumSeq([i \in 1..RESULT_BUFFER_SIZE |->
                               slot(idx[i]) * weight(idx[i])])
      totalWeight == SumSeq([i \in 1..RESULT_BUFFER_SIZE |-> weight(idx[i])])
  IN IF totalWeight > 0 THEN Round(weightedSum, totalWeight)
     ELSE processedSpO2

\* a variant that asks for half the minimum data
TooFewSamples_Half(values) == Len(values) < MIN_SPO2_VALUES \div 2
\* the minimum-data test of calculate (line 134)
TooFewSamples(values) == Len(values) < MIN_SPO2_VALUES

\* calculate, lines 147-155: the calibration offset and the clamp
Calibrated(c, rawSpO2) ==
  MaxOf(90, MinOf(100, IF c.calibration.calibrated
                       THEN rawSpO2 + c.calibration.offset ELSE rawSpO2))
\* calculate, lines 183-187: the displayed value follows every change of 1
StableValue(c, finalSpO2) ==
  IF c.stableValue = 0 \/ Abs(finalSpO2 - c.stableValue) >= 1
  THEN finalSpO2 ELSE c.stableValue
calculateSpO2Stored(c, pv, results, resultIndex, stable) ==
  <<[c EXCEPT !.processor = pv[1], !.previousResults = results,
              !.resultIndex = resultIndex, !.stableValue = stable], stable>>
\* calculate, lines 161-187: pv is the result of processValue
calculateSpO2Processed(c, pv, results, resultIndex) ==
  calculateSpO2Stored(
    c, pv, results, resultIndex,
    StableValue(c, WeightedResult(results, resultIndex, pv[2])))
calculateSpO2Filtered(c, pv) ==
  calculateSpO2Processed(
    c, pv, [c.previousResults EXCEPT ![c.resultIndex + 1] = pv[2]],
    (c.resultIndex + 1) % RESULT_BUFFER_SIZE)
\* calculate, lines 140-187: c holds the fields calculateRaw has left
calculateSpO2Timed(c, rawSpO2) ==
  IF rawSpO2 <= 0 THEN <<c, Fallback(c)>>
  ELSE calculateSpO2Filtered(
         c, processValue(addRawValue(c.processor, rawSpO2),
                         Calibrated(c, rawSpO2)))
calculateSpO2Raw(c, raw) ==
  calculateSpO2Timed([c EXCEPT !.lastCalculationTime = raw.time,
                               !.signalCache = raw.cache], raw.value)
\* SpO2Calculator.calculate(values) at performance.now() = t:
\* <<calculator fields afterwards, returned value>>
calculateSpO2(c, values, t) ==
  IF TooFewSamples(values) THEN <<c, Fallback(c)>>
  ELSE calculateSpO2Raw(c, calculateRaw(c, values, t))

\* SpO2Calculator after construction or reset(); cacheMean is the mean of
\* signalCache and bufferFull is never read
CalculatorInit ==
  [lastCalculationTime |-> 0, signalCache |-> <<>>,
   previousResults |-> <<0, 0, 0, 0, 0>>, resultIndex |-> 0,
   stableValue |-> 0, calibration |-> [calibrated |-> FALSE, offset |-> 0],
   processor |-> ProcessorInit]

(* The calculator is driven with the inputs of the pressure calculator;    *)
(* performance.now() starts at PerfStart and advances in steps of          *)
(* PerfTickMs.                                                             *)
PerfStart == 1000
PerfTickMs == 100
MaxPerfTicks == 2

SpO2Init ==
  spo2Calc = [calc |-> CalculatorInit, perfNow |-> PerfStart, calls |-> 0,
              ticks |-> 0, fresh |-> TRUE,
              out |-> [op |-> "new", len |-> 0, value |-> 0,
                       wasFresh |-> TRUE]]

\* calculate(values)
SpO2Calculate(maxCalls) ==
  /\ spo2Calc.calls < maxCalls
  /\ \E shape \in CalcShapes, n \in CalcLens :
       \E r \in {calculateSpO2(spo2Calc.calc, Samples(shape, n),
                                spo2Calc.perfNow)} :
         spo2Calc' = [spo2Calc EXCEPT
                        !.calc = r[1],
                        !.calls = spo2Calc.calls + 1,
                        !.fresh = spo2Calc.fresh /\ n < 20,
                        !.out = [op |-> "calculate", len |-> n,
                                 value |-> r[2],
                                 wasFresh |-> spo2Calc.fresh]]

\* reset()
SpO2Reset ==
  spo2Calc' = [spo2Calc EXCEPT
                    !.calc = CalculatorInit, !.calls = 0, !.fresh = TRUE,
                    !.out = [op |-> "reset", len |-> 0, value |-> 0,
                             wasFresh |-> TRUE]]

\* time passes
SpO2Tick(tickMs, maxTicks) ==
  /\ spo2Calc.ticks < maxTicks
  /\ spo2Calc' = [spo2Calc EXCEPT !.perfNow = spo2Calc.perfNow + tickMs,
                                  !.ticks = spo2Calc.ticks + 1]

-----------------------------------------------------------------------------
(* PPGSignalProcessor and its KalmanFilter (SpO2Processor.ts:151-438)      *)
(*                                                                         *)
(* Doubles are modelled in fixed point: the filtered values in hundredths  *)
(* (X_SCALE), the Kalman covariance and gain in ten-thousandths (K_SCALE). *)
(* stableFrameCount moves in steps of 0.5 and is stored doubled.           *)

X_SCALE == 100
K_SCALE == 10000
SIG_BUFFER_SIZE == 15
MIN_RED_THRESHOLD == 95
MAX_RED_THRESHOLD == 235
STABILITY_WINDOW == 8
MIN_STABILITY_COUNT == 6
MIN_DETECTION_INTERVAL == 500

\* a/b < c/d for a, c >= 0 and b, d > 0, without forming the products
RECURSIVE FracLess(_, _, _, _)
FracLess(a, b, c, d) ==
  IF a \div b # c \div d THEN a \div b < c \div d
  ELSE IF c % d = 0 THEN FALSE
  ELSE IF a % b = 0 THEN TRUE
  ELSE FracLess(d, c % d, b, a % b)

\* KalmanFilter.filter(measurement), lines 160-166, R = 0.01 and Q = 0.1:
\* p1 is P + Q, gain is K
KalmanUpdated(k, measurement, p1, gain) ==
  [X |-> k.X + Round(gain * (measurement * X_SCALE - k.X), K_SCALE),
   P |-> Round((K_SCALE - gain) * p1, K_SCALE)]
KalmanPredicted(k, measurement, p1) ==
  KalmanUpdated(k, measurement, p1, Round(p1 * K_SCALE, p1 + K_SCALE \div 100))
KalmanFilter(k, measurement) ==
  KalmanPredicted(k, measurement, k.P + K_SCALE \div 10)
\* KalmanFilter as constructed, and after reset() (lines 168-171)
KalmanFresh == [X |-> 0, P |-> K_SCALE]

\* calculateQuality without the test of line 391
calculateQuality_Untested(c, ls, rawValue, filtered) ==
  Round(1750 * MinOf(c, 2 * MIN_STABILITY_COUNT)
        + 50 * MinOf(rawValue - MIN_RED_THRESHOLD,
                     MAX_RED_THRESHOLD - MIN_RED_THRESHOLD)
        + 7 * MaxOf(0, 10 * X_SCALE - Abs(filtered - ls)),
        350)
\* calculateQuality(rawValue, filtered), lines 390-405, with the fields c =
\* consecutiveStableFrames and ls = lastStableValue:
\*   round((min(c / 12, 1) * 0.6 + min((raw - 95) / 140, 1) * 0.2
\*          + max(0, 1 - |filtered - ls| / 10) * 0.2) * 100)
calculateQuality(c, ls, rawValue, filtered) ==
  IF c < MIN_STABILITY_COUNT THEN 0
  ELSE Round(1750 * MinOf(c, 2 * MIN_STABILITY_COUNT)
             + 50 * MinOf(rawValue - MIN_RED_THRESHOLD,
                          MAX_RED_THRESHOLD - MIN_RED_THRESHOLD)
             + 7 * MaxOf(0, 10 * X_SCALE - Abs(filtered - ls)),
             350)

\* analyzeSignal, lines 350-367: the variations of the window and the
\* stability test against adaptiveThreshold = max(2.5, avgValue * 0.03);
\* S is the sum of the window, V the sum of the variations, D the sum of
\* the squares of 8 * variation - V
Variations(recent) ==
  [i \in 1..Len(recent) |->
     IF i = 1 THEN 0 ELSE Abs(recent[i] - recent[i - 1])]
StableDeviation(variations, V, S) ==
  IF 3 * S > 250 * 800
  THEN FracLess(SumSeq([i \in 1..Len(variations) |->
                          (8 * variations[i] - V) * (8 * variations[i] - V)]),
                S, 9 * S, 5000)
  ELSE SumSeq([i \in 1..Len(variations) |->
                 (8 * variations[i] - V) * (8 * variations[i] - V)])
       < 128 * 250 * 250
StableOn(variations, V, S) ==
  IF 3 * S > 250 * 800
  THEN /\ 10 * SeqMax(variations) * 800 < 18 * 3 * S
       /\ V * 800 < 8 * 3 * S
       /\ StableDeviation(variations, V, S)
  ELSE /\ 10 * SeqMax(variations) < 18 * 250
       /\ V < 8 * 250
       /\ StableDeviation(variations, V, S)
isStable(recent) ==
  StableOn(Variations(recent), SumSeq(Variations(recent)), SumSeq(recent))

\* analyzeSignal, lines 369-387: the fields and the result once the
\* stability of the window is known
analyzeSignalStable(st, filtered, rawValue, t, stable, c) ==
  [st EXCEPT
     !.consecutiveStableFrames = c,
     !.stableFrameCount2 =
        IF stable THEN MinOf(st.stableFrameCount2 + 1,
                             4 * MIN_STABILITY_COUNT)
        ELSE MaxOf(0, st.stableFrameCount2 - 2),
     !.lastStableValue = IF stable THEN filtered ELSE st.lastStableValue,
     !.lastDetectionTime = IF c >= MIN_STABILITY_COUNT THEN t
                           ELSE st.lastDetectionTime,
     !.isFingerDetected = c >= MIN_STABILITY_COUNT,
     !.quality = calculateQuality(c, IF stable THEN filtered
                                     ELSE st.lastStableValue,
                                  rawValue, filtered)]
\* analyzeSignal(filtered, rawValue) at Date.now() = t on the fields st
\* (lastValues already holds filtered); the result is in isFingerDetected
\* and quality
analyzeSignal(st, filtered, rawValue, t) ==
  IF t - st.lastDetectionTime < MIN_DETECTION_INTERVAL
  THEN [st EXCEPT
          !.isFingerDetected =
             st.consecutiveStableFrames >= MIN_STABILITY_COUNT,
          !.quality = calculateQuality(st.consecutiveStableFrames,
                                       st.lastStableValue, rawValue,
                                       filtered)]
  ELSE IF ~(rawValue >= MIN_RED_THRESHOLD /\ rawValue <= MAX_RED_THRESHOLD)
  THEN [st EXCEPT !.consecutiveStableFrames = 0,
                  !.stableFrameCount2 = MaxOf(0, st.stableFrameCount2 - 4),
                  !.isFingerDetected = FALSE, !.quality = 0]
  ELSE IF Len(st.lastValues) < STABILITY_WINDOW
  THEN [st EXCEPT !.isFingerDetected = FALSE, !.quality = 0]
  ELSE IF isStable(LastN(st.lastValues, STABILITY_WINDOW))
  THEN analyzeSignalStable(st, filtered, rawValue, t, TRUE,
                           st.consecutiveStableFrames + 1)
  ELSE analyzeSignalStable(st, filtered, rawValue, t, FALSE,
                           MaxOf(0, st.consecutiveStableFrames - 1))

\* processFrame, lines 272-300, once the frame is filtered: the analysis,
\* then the ProcessedSignal handed to onSignalReady (signals counts them)
processFrameFiltered(st, k, redValue, t) ==
  analyzeSignal([st EXCEPT !.kalman = k,
                           !.lastValues = PushCap(st.lastValues, k.X,
                                                  SIG_BUFFER_SIZE),
                           !.signals = @ + 1],
                k.X, redValue, t)
\* processFrame without the isProcessing test of lines 267-270
processFrame_Unguarded(st, redValue, t) ==
  processFrameFiltered(st, KalmanFilter(st.kalman, redValue), redValue, t)
\* processFrame(imageData) at Date.now() = t; redValue is the mean of the
\* red channel of the frame (extractRedChannel)
processFrame(st, redValue, t) ==
  IF ~st.isProcessing THEN st
  ELSE processFrameFiltered(st, KalmanFilter(st.kalman, redValue),
                            redValue, t)

\* initialize(), lines 207-218: what start() and resetToDefault() clear
initialize(st) ==
  [st EXCEPT !.lastValues = <<>>, !.stableFrameCount2 = 0,
             !.lastStableValue = 0, !.kalman = KalmanFresh]
\* start(), lines 220-225
start(st) ==
  IF st.isProcessing THEN st
  ELSE initialize([st EXCEPT !.isProcessing = TRUE])
\* stop(), lines 227-234
stop(st) ==
  [st EXCEPT !.isProcessing = FALSE, !.lastValues = <<>>,
             !.stableFrameCount2 = 0, !.lastStableValue = 0,
             !.kalman = KalmanFresh]

\* the fields of a processor as constructed (lines 175-203); isFingerDetected
\* and quality hold the result of the last frame
SigFresh ==
  [isProcessing |-> FALSE, kalman |-> KalmanFresh, lastValues |-> <<>>,
   stableFrameCount2 |-> 0, lastStableValue |-> 0,
   consecutiveStableFrames |-> 0, lastDetectionTime |-> 0,
   isFingerDetected |-> FALSE, quality |-> 0, signals |-> 0]

(* The frame driver.  The camera delivers a frame every FrameMs; the mean   *)
(* red value of a frame is one of FrameReds and changes at most             *)
(* MaxRedChanges times; the processor is stopped at most MaxStops times.    *)
MaxFrames == 24
MaxRedChanges == 1
MaxStops == 1
FrameMs == 100
FrameReds == {60, 150, 200}

SigInit ==
  sig = [p |-> SigFresh, clock |-> StartTime, op |-> "new", frames |-> 0,
         sinceStart |-> 0, red |-> 0, changes |-> 0, stops |-> 0]

SigStart ==
  /\ sig.op \in {"new", "stop"}
  /\ sig' = [sig EXCEPT !.p = start(sig.p), !.op = "start",
                        !.sinceStart = 0]
SigStop ==
  /\ sig.stops < MaxStops
  /\ sig.op # "stop"
  /\ sig' = [sig EXCEPT !.p = stop(sig.p), !.op = "stop",
                        !.stops = sig.stops + 1]
SigProcessFrame ==
  /\ sig.frames < MaxFrames
  /\ \E redValue \in FrameReds :
       /\ redValue # sig.red /\ sig.frames > 0 => sig.changes < MaxRedChanges
       /\ \E r \in {processFrame(sig.p, redValue, sig.clock + FrameMs)} :
            sig' = [sig EXCEPT
                      !.p = r, !.clock = sig.clock + FrameMs,
                      !.op = IF sig.p.isProcessing THEN "processFrame"
                             ELSE "ignored",
                      !.frames = sig.frames + 1,
                      !.sinceStart = IF sig.p.isProcessing
                                     THEN sig.sinceStart + 1
                                     ELSE sig.sinceStart,
                      !.red = redValue,
                      !.changes = IF redValue # sig.red /\ sig.frames > 0
                                  THEN sig.changes + 1 ELSE sig.changes]
-----------------------------------------------------------------------------
(* PPGSignalProcessor with hysteresis (SpO2Processor.ts:451-692, the second *)
(* class of that name in the file).  It keeps the Kalman filter of the      *)
(* first; its thresholds are those of DEFAULT_CONFIG (lines 455-463).       *)
(* stableFrameCount moves in steps of 0.5 and is stored doubled.            *)
HYST_BUFFER_SIZE == 4
HYST_MIN_RED_THRESHOLD == 100
HYST_MAX_RED_THRESHOLD == 268
HYST_MIN_STABILITY_COUNT == 2
HYSTERESIS == 5
MIN_CONSECUTIVE_DETECTIONS == 3
DETECTION_TIMEOUT == 500

\* the fields as constructed (lines 452-471); isFingerDetected and quality
\* hold the result of the last frame, signals counts the ProcessedSignals
\* handed to onSignalReady
HystFresh ==
  [isProcessing |-> FALSE, kalman |-> KalmanFresh, lastValues |-> <<>>,
   stableFrameCount2 |-> 0, lastStableValue |-> 0,
   consecutiveDetections |-> 0, isCurrentlyDetected |-> FALSE,
   lastDetectionTime |-> 0, isFingerDetected |-> FALSE, quality |-> 0,
   signals |-> 0]

\* calculateStability() > 0.7, lines 663-672: the average variation of
\* lastValues is below 15
StabilityAbove70(lastValues) ==
  /\ Len(lastValues) >= 2
  /\ SumSeq([i \in 1..(Len(lastValues) - 1) |->
               Abs(lastValues[i + 1] - lastValues[i])])
       < 15 * X_SCALE * (Len(lastValues) - 1)

\* lines 608-612: the range, widened by HYSTERESIS while a finger is detected
HystInRange(detected, rawValue) ==
  IF detected
  THEN /\ rawValue >= HYST_MIN_RED_THRESHOLD - HYSTERESIS
       /\ rawValue <= HYST_MAX_RED_THRESHOLD + HYSTERESIS
  ELSE /\ rawValue >= HYST_MIN_RED_THRESHOLD
       /\ rawValue <= HYST_MAX_RED_THRESHOLD

\* lines 648-653: round((stableFrameCount / 4 * 0.6
\*                       + min((raw - 100) / 168, 1) * 0.4) * 100)
HystQuality(stableFrameCount2, rawValue) ==
  Round(15 * stableFrameCount2
          * (HYST_MAX_RED_THRESHOLD - HYST_MIN_RED_THRESHOLD)
        + 80 * MinOf(rawValue - HYST_MIN_RED_THRESHOLD,
                     HYST_MAX_RED_THRESHOLD - HYST_MIN_RED_THRESHOLD),
        2 * (HYST_MAX_RED_THRESHOLD - HYST_MIN_RED_THRESHOLD))

\* lines 637-659: the detection state and the result, given the new
\* stableFrameCount (doubled)
HystDetection(st, rawValue, t, sfc2, isStableNow, confirmed) ==
  [st EXCEPT
     !.stableFrameCount2 = sfc2,
     !.consecutiveDetections =
        IF isStableNow THEN @ + 1 ELSE MaxOf(0, @ - 1),
     !.isCurrentlyDetected = IF confirmed THEN TRUE ELSE @,
     !.lastDetectionTime = IF confirmed THEN t ELSE @,
     !.isFingerDetected = confirmed \/ st.isCurrentlyDetected,
     !.quality = IF confirmed \/ st.isCurrentlyDetected
                 THEN HystQuality(sfc2, rawValue) ELSE 0]
HystStability(st, rawValue, t, sfc2) ==
  HystDetection(st, rawValue, t, sfc2,
                sfc2 >= 2 * HYST_MIN_STABILITY_COUNT,
                /\ sfc2 >= 2 * HYST_MIN_STABILITY_COUNT
                /\ st.consecutiveDetections + 1 >= MIN_CONSECUTIVE_DETECTIONS)
\* lines 614-623: a frame out of range
HystOutOfRange(st, t, detected) ==
  [st EXCEPT !.consecutiveDetections = 0,
             !.stableFrameCount2 = MaxOf(0, @ - 2),
             !.isCurrentlyDetected = detected,
             !.isFingerDetected = detected, !.quality = 0]
\* analyzeSignal with the test of DETECTION_TIMEOUT (line 618) left out
hystAnalyzeSignal_NoTimeout(st, rawValue, t) ==
  IF ~HystInRange(st.isCurrentlyDetected, rawValue)
  THEN HystOutOfRange(st, t, FALSE)
  ELSE HystStability(st, rawValue, t,
                     IF StabilityAbove70(st.lastValues)
                     THEN MinOf(st.stableFrameCount2 + 2,
                                4 * HYST_MIN_STABILITY_COUNT)
                     ELSE MaxOf(0, st.stableFrameCount2 - 1))
\* analyzeSignal(filtered, rawValue) at Date.now() = t, lines 603-661
\* (lastValues already holds filtered)
hystAnalyzeSignal(st, rawValue, t) ==
  IF ~HystInRange(st.isCurrentlyDetected, rawValue)
  THEN HystOutOfRange(st, t,
                      IF t - st.lastDetectionTime > DETECTION_TIMEOUT
                      THEN FALSE ELSE st.isCurrentlyDetected)
  ELSE HystStability(st, rawValue, t,
                     IF StabilityAbove70(st.lastValues)
                     THEN MinOf(st.stableFrameCount2 + 2,
                                4 * HYST_MIN_STABILITY_COUNT)
                     ELSE MaxOf(0, st.stableFrameCount2 - 1))

\* processFrame(imageData) at Date.now() = t, lines 529-569; redValue is
\* what extractRedChannel returns.  Once the frame is filtered: the
\* analysis, then the ProcessedSignal handed to onSignalReady (line 563)
hystProcessFrameFiltered(st, k, redValue, t) ==
  hystAnalyzeSignal([st EXCEPT !.kalman = k,
                               !.lastValues = PushCap(@, k.X,
                                                      HYST_BUFFER_SIZE),
                               !.signals = @ + 1],
                    redValue, t)
hystProcessFrame(st, redValue, t) ==
  IF ~st.isProcessing THEN st
  ELSE hystProcessFrameFiltered(st, KalmanFilter(st.kalman, redValue),
                                redValue, t)
\* initialize(), lines 482-496
hystInitialize(st) ==
  [st EXCEPT !.lastValues = <<>>, !.stableFrameCount2 = 0,
             !.lastStableValue = 0, !.consecutiveDetections = 0,
             !.isCurrentlyDetected = FALSE, !.lastDetectionTime = 0,
             !.kalman = KalmanFresh]
\* start(), lines 498-503
hystStart(st) ==
  IF st.isProcessing THEN st
  ELSE hystInitialize([st EXCEPT !.isProcessing = TRUE])
\* stop(), lines 505-514
hystStop(st) ==
  [st EXCEPT !.isProcessing = FALSE, !.lastValues = <<>>,
             !.stableFrameCount2 = 0, !.lastStableValue = 0,
             !.consecutiveDetections = 0, !.isCurrentlyDetected = FALSE,
             !.kalman = KalmanFresh]
\* calibrate(), lines 516-527
hystCalibrate(st) == hystInitialize(st)

(* The frame driver.  A frame arrives HystFrameMs or, at most MaxHystPauses *)
(* times, HystPauseMs after the one before; its red value is one of         *)
(* HystReds (0: no red dominance) and changes at most MaxHystChanges        *)
(* times.  A frame whose capture was in flight when stop() was called is    *)
(* handed to processFrame after the stop.                                   *)
MaxHystFrames == 8
MaxHystChanges == 2
MaxHystPauses == 1
MaxHystStops == 1
MaxHystCalibrations == 1
HystFrameMs == 100
HystPauseMs == 600
HystReds == {0, 97, 150}

PpgInit ==
  ppg = [p |-> HystFresh, clock |-> StartTime, op |-> "new", frames |-> 0,
         red |-> 0, changes |-> 0, pauses |-> 0, stops |-> 0,
         calibrations |-> 0]

HystStart ==
  /\ ppg.op \in {"new", "stop"}
  /\ ppg' = [ppg EXCEPT !.p = hystStart(ppg.p), !.op = "start"]
HystStop ==
  /\ ppg.stops < MaxHystStops
  /\ ppg.op # "stop"
  /\ ppg' = [ppg EXCEPT !.p = hystStop(ppg.p), !.op = "stop",
                        !.stops = ppg.stops + 1]
HystCalibrate ==
  /\ ppg.calibrations < MaxHystCalibrations
  /\ ppg.p.isProcessing
  /\ ppg' = [ppg EXCEPT !.p = hystCalibrate(ppg.p), !.op = "calibrate",
                        !.calibrations = ppg.calibrations + 1]
HystProcessFrame ==
  /\ ppg.frames < MaxHystFrames
  /\ \E redValue \in HystReds, gap \in {HystFrameMs, HystPauseMs} :
       /\ redValue # ppg.red /\ ppg.frames > 0 => ppg.changes < MaxHystChanges
       /\ gap = HystPauseMs => ppg.pauses < MaxHystPauses
       /\ \E r \in {hystProcessFrame(ppg.p, redValue, ppg.clock + gap)} :
            ppg' = [ppg EXCEPT
                      !.p = r, !.clock = ppg.clock + gap,
                      !.op = IF ppg.p.isProcessing THEN "processFrame"
                             ELSE "ignored",
                      !.frames = ppg.frames + 1,
                      !.red = redValue,
                      !.changes = IF redValue # ppg.red /\ ppg.frames > 0
                                  THEN ppg.changes + 1 ELSE ppg.changes,
                      !.pauses = IF gap = HystPauseMs THEN ppg.pauses + 1
                                 ELSE ppg.pauses]
-----------------------------------------------------------------------------
(* useHeartBeatProcessor (useHeartBeatProcessor.ts:5-129).  The hook holds  *)
(* the HeartBeatProcessor in processorRef (<<>> is null); of the processor  *)
(* the model keeps which instance it is and the calls it has received:      *)
(* samples counts the processSignal calls since its last reset(), resets    *)
(* the reset() calls.  timers holds the due times of the clearArrays        *)
(* callbacks that cleanMemory scheduled and that have not run yet.          *)
CLEAR_DELAY_MS == 100

\* new HeartBeatProcessor(), line 14
NewHeartBeatProcessor(id) == [id |-> id, samples |-> 0, resets |-> 0]
\* processorRef.current.reset()
ResetProcessor(ref) ==
  IF ref = <<>> THEN ref
  ELSE <<[ref[1] EXCEPT !.samples = 0, !.resets = @ + 1]>>
\* getProcessor(), lines 11-19
getProcessor(h) ==
  IF h.processorRef = <<>>
  THEN [h EXCEPT !.processorRef = <<NewHeartBeatProcessor(h.created + 1)>>,
                 !.created = @ + 1]
  ELSE h
\* processSignal(value), lines 21-49; result is what the processor returns
hbProcessSignalOn(h, result) ==
  [h EXCEPT !.processorRef = <<[@[1] EXCEPT !.samples = @ + 1]>>,
            !.bpm = result.bpm, !.confidence = result.confidence,
            !.isPeak = result.isPeak]
hbProcessSignal(h, result) == hbProcessSignalOn(getProcessor(h), result)
\* reset(), lines 51-58
hbReset(h) ==
  [h EXCEPT !.processorRef = ResetProcessor(@),
            !.bpm = 0, !.confidence = 0, !.isPeak = FALSE]
\* cleanMemory() at time t, lines 83-117
hbCleanMemory(h, t) ==
  [h EXCEPT !.bpm = 0, !.confidence = 0, !.isPeak = FALSE,
            !.processorRef = <<>>,
            !.timers = Append(@, t + CLEAR_DELAY_MS)]
\* clearArrays, lines 108-113, run by the oldest timer
clearArrays(h) ==
  [h EXCEPT !.processorRef = ResetProcessor(@), !.timers = Tail(@)]

\* the hook as mounted (lines 6-9)
HbFresh ==
  [bpm |-> 0, confidence |-> 0, isPeak |-> FALSE, processorRef |-> <<>>,
   created |-> 0, timers |-> <<>>]

(* The driver: the page calls the hook every HbStepMs; a timer that is due  *)
(* runs before the next call.                                               *)
MaxHbCalls == 8
MaxHbCleanups == 2
HbStepMs == 50
HbResults ==
  {[bpm |-> 0, confidence |-> 0, isPeak |-> FALSE],
   [bpm |-> 75, confidence |-> 1, isPeak |-> TRUE]}

HbInit ==
  hb = [h |-> HbFresh, clock |-> StartTime, op |-> "new", calls |-> 0,
        cleanups |-> 0]
HbTimerDue == hb.h.timers # <<>> /\ hb.h.timers[1] <= hb.clock
HbCalled(h, op) ==
  hb' = [hb EXCEPT !.h = h, !.op = op, !.calls = hb.calls + 1,
                   !.clock = hb.clock + HbStepMs]

HbProcessSignal ==
  /\ hb.calls < MaxHbCalls /\ ~HbTimerDue
  /\ \E result \in HbResults :
       HbCalled(hbProcessSignal(hb.h, result), "processSignal")
HbReset ==
  /\ hb.calls < MaxHbCalls /\ ~HbTimerDue
  /\ HbCalled(hbReset(hb.h), "reset")
HbCleanMemory ==
  /\ hb.calls < MaxHbCalls /\ ~HbTimerDue
  /\ hb.cleanups < MaxHbCleanups
  /\ hb' = [hb EXCEPT !.h = hbCleanMemory(hb.h, hb.clock),
                      !.op = "cleanMemory", !.calls = hb.calls + 1,
                      !.cleanups = hb.cleanups + 1,
                      !.clock = hb.clock + HbStepMs]
HbTimer ==
  /\ HbTimerDue
  /\ hb' = [hb EXCEPT !.h = clearArrays(hb.h), !.op = "timer"]
  \* nothing more to do: the session has ended
HbIdle ==
  /\ hb.calls = MaxHbCalls /\ ~HbTimerDue /\ hb.h.timers # <<>>
  /\ hb' = [hb EXCEPT !.clock = hb.clock + HbStepMs, !.op = "idle"]
-----------------------------------------------------------------------------
(* VitalSignsRisk (src/unnamed/part_003, the utils/vitalSignsRisk module).  *)
(* Every field of the class is static: there is one set of histories in    *)
(* the program, whoever calls.  A history entry is [value, timestamp] (or  *)
(* [systolic, diastolic, timestamp]); a smoothed value is a double in the  *)
(* source and is kept here multiplied by RISK_SCALE and rounded to the     *)
(* nearest unit, so the first six smoothing steps of an integer reading    *)
(* are exact.  A segment is [color, label].                                *)

RISK_STABILITY_WINDOW == 4000
MEASUREMENT_WINDOW == 40000
SMOOTHING_DIVISOR == 4
AVERAGE_WINDOW == 20000
RISK_SCALE == 4096
null == -1

Segment(color, label) == [color |-> color, label |-> label]
EVALUANDO == Segment("#FFFFFF", "EVALUANDO...")
NoSegment == Segment("#FFFFFF", "")

\* the static fields as declared (lines 26-35)
RiskFresh ==
  [bpmHistory |-> <<>>, spo2History |-> <<>>, bpHistory |-> <<>>,
   lastBPM |-> null, lastSystolic |-> null, lastDiastolic |-> null,
   bpmSegmentHistory |-> <<>>, bpSegmentHistory |-> <<>>]

\* lastValue + 0.25 * (newValue - lastValue)
smoothValue(newValue, lastValue) ==
  IF lastValue = null THEN newValue
  ELSE lastValue + Round(newValue - lastValue, SMOOTHING_DIVISOR)

\* history.filter(check => now - check.timestamp < window)
Within(history, t, window) ==
  SelectSeq(history, LAMBDA check : t - check.timestamp < window)

updateBPMHistoryWith(rs, smoothedValue, t) ==
  [rs EXCEPT !.lastBPM = smoothedValue,
             !.bpmHistory = Append(Within(@, t, MEASUREMENT_WINDOW),
                                   [value |-> smoothedValue, timestamp |-> t])]
updateBPMHistory(rs, value, t) ==
  updateBPMHistoryWith(rs, smoothValue(value * RISK_SCALE, rs.lastBPM), t)

updateSPO2History(rs, value, t) ==
  [rs EXCEPT !.spo2History = Append(Within(@, t, MEASUREMENT_WINDOW),
                                    [value |-> value * RISK_SCALE,
                                     timestamp |-> t])]

updateBPHistoryWith(rs, smoothedSystolic, smoothedDiastolic, t) ==
  [rs EXCEPT !.lastSystolic = smoothedSystolic,
             !.lastDiastolic = smoothedDiastolic,
             !.bpHistory = Append(Within(@, t, MEASUREMENT_WINDOW),
                                  [systolic |-> smoothedSystolic,
                                   diastolic |-> smoothedDiastolic,
                                   timestamp |-> t,
                                   value |-> smoothedSystolic])]
updateBPHistory(rs, systolic, diastolic, t) ==
  updateBPHistoryWith(rs, smoothValue(systolic * RISK_SCALE, rs.lastSystolic),
                      smoothValue(diastolic * RISK_SCALE, rs.lastDiastolic), t)

\* Math.ceil(n * 0.75)
CeilThreeQuarters(n) == (3 * n + 3) \div 4

Recent(history, t) ==
  SelectSeq(history, LAMBDA check : check.timestamp >= t - RISK_STABILITY_WINDOW)

StableShareFloor(recentHistory, stableChecks) ==
  /\ Len(recentHistory) >= 3
  /\ Len(stableChecks) >= (3 * Len(recentHistory)) \div 4
StableShare(recentHistory, stableChecks) ==
  /\ Len(recentHistory) >= 3
  /\ Len(stableChecks) >= CeilThreeQuarters(Len(recentHistory))

isStableRecent(recentHistory, lo, hi) ==
  StableShare(recentHistory,
              SelectSeq(recentHistory,
                        LAMBDA check : /\ check.value >= lo * RISK_SCALE
                                       /\ check.value <= hi * RISK_SCALE))
isStableValue(history, lo, hi, t) == isStableRecent(Recent(history, t), lo, hi)

isStableBPRecent(recentHistory, sLo, sHi, dLo, dHi) ==
  StableShare(recentHistory,
              SelectSeq(recentHistory,
                        LAMBDA check : /\ check.systolic >= sLo * RISK_SCALE
                                       /\ check.systolic <= sHi * RISK_SCALE
                                       /\ check.diastolic >= dLo * RISK_SCALE
                                       /\ check.diastolic <= dHi * RISK_SCALE))
isStableBP(rs, sLo, sHi, dLo, dHi, t) ==
  isStableBPRecent(Recent(rs.bpHistory, t), sLo, sHi, dLo, dHi)

\* the label counted most often; the sort is stable, so among equal counts
\* the label that appeared first
LabelCount(segments, label) ==
  Cardinality({i \in 1..Len(segments) : segments[i].label = label})
FirstIndexOf(segments, label) ==
  CHOOSE i \in 1..Len(segments) :
    /\ segments[i].label = label
    /\ \A j \in 1..(i - 1) : segments[j].label # label
getMostFrequentSegment(segments) ==
  IF Len(segments) = 0 THEN NoSegment
  ELSE segments[CHOOSE i \in 1..Len(segments) :
         /\ i = FirstIndexOf(segments, segments[i].label)
         /\ \A j \in 1..Len(segments) :
              \/ LabelCount(segments, segments[i].label)
                   > LabelCount(segments, segments[j].label)
              \/ /\ LabelCount(segments, segments[i].label)
                      = LabelCount(segments, segments[j].label)
                 /\ i <= FirstIndexOf(segments, segments[j].label)]

\* Math.round of the mean of the entries of the last 20 s; 0 without entries
RECURSIVE SumField(_, _, _)
SumField(history, field, i) ==
  IF i > Len(history) THEN 0
  ELSE history[i][field] + SumField(history, field, i + 1)
AverageOf(recentHistory, field) ==
  IF Len(recentHistory) = 0 THEN 0
  ELSE Round(SumField(recentHistory, field, 1), Len(recentHistory) * RISK_SCALE)
getAverageBPM(rs, t) ==
  AverageOf(Within(rs.bpmHistory, t, AVERAGE_WINDOW), "value")
getAverageSPO2(rs, t) ==
  AverageOf(Within(rs.spo2History, t, AVERAGE_WINDOW), "value")
getAverageBP(rs, t) ==
  [systolic |-> AverageOf(Within(rs.bpHistory, t, AVERAGE_WINDOW), "systolic"),
   diastolic |-> AverageOf(Within(rs.bpHistory, t, AVERAGE_WINDOW), "diastolic")]

\* A call returns [rs, out]: the static fields after it and its result.
RiskReturn(rs, segment) == [rs |-> rs, out |-> segment]

\* lines 197-217
getBPMRiskRealtimeOf(rs, currentSegment) ==
  RiskReturn(IF currentSegment.label # "EVALUANDO..."
             THEN [rs EXCEPT !.bpmSegmentHistory = Append(@, currentSegment)]
             ELSE rs,
             currentSegment)
getBPMRiskRealtime(rs, t) ==
  getBPMRiskRealtimeOf(rs,
    IF isStableValue(rs.bpmHistory, 140, 300, t)
      THEN Segment("#ea384c", "TAQUICARDIA")
    ELSE IF isStableValue(rs.bpmHistory, 110, 139, t)
      THEN Segment("#F97316", "LEVE TAQUICARDIA")
    ELSE IF isStableValue(rs.bpmHistory, 50, 110, t)
      THEN Segment("#FFFFFF", "NORMAL")
    ELSE IF isStableValue(rs.bpmHistory, 40, 49, t)
      THEN Segment("#F97316", "BRADICARDIA")
    ELSE EVALUANDO)
\* lines 175-195
getBPMRiskFinal(rs, avgBPM, t) ==
  IF avgBPM >= 140 THEN RiskReturn(rs, Segment("#ea384c", "TAQUICARDIA"))
  ELSE IF avgBPM >= 110
    THEN RiskReturn(rs, Segment("#F97316", "LEVE TAQUICARDIA"))
  ELSE IF avgBPM >= 50 THEN RiskReturn(rs, Segment("#FFFFFF", "NORMAL"))
  ELSE IF avgBPM >= 40 THEN RiskReturn(rs, Segment("#F97316", "BRADICARDIA"))
  ELSE IF Len(rs.bpmSegmentHistory) > 0
    THEN RiskReturn(rs, getMostFrequentSegment(rs.bpmSegmentHistory))
  ELSE getBPMRiskRealtime(rs, t)
getBPMRiskUpdated(rs, isFinalReading, t) ==
  IF isFinalReading THEN getBPMRiskFinal(rs, getAverageBPM(rs, t), t)
  ELSE getBPMRiskRealtime(rs, t)
getBPMRisk(rs, bpm, isFinalReading, t) ==
  IF bpm <= 0 THEN RiskReturn(rs, NoSegment)
  ELSE getBPMRiskUpdated(updateBPMHistory(rs, bpm, t), isFinalReading, t)

\* lines 240-253
getSPO2RiskRealtime(rs, t) ==
  RiskReturn(rs,
    IF isStableValue(rs.spo2History, 0, 90, t)
      THEN Segment("#ea384c", "INSUFICIENCIA RESPIRATORIA")
    ELSE IF isStableValue(rs.spo2History, 90, 92, t)
      THEN Segment("#F97316", "LEVE INSUFICIENCIA RESPIRATORIA")
    ELSE IF isStableValue(rs.spo2History, 93, 100, t)
      THEN Segment("#0EA5E9", "NORMAL")
    ELSE EVALUANDO)
\* lines 226-238
getSPO2RiskFinal(rs, avgSPO2, t) ==
  IF avgSPO2 <= 0 THEN getSPO2RiskRealtime(rs, t)
  ELSE IF avgSPO2 <= 90
    THEN RiskReturn(rs, Segment("#ea384c", "INSUFICIENCIA RESPIRATORIA"))
  ELSE IF avgSPO2 <= 92
    THEN RiskReturn(rs, Segment("#F97316", "LEVE INSUFICIENCIA RESPIRATORIA"))
  ELSE RiskReturn(rs, Segment("#0EA5E9", "NORMAL"))
getSPO2RiskUpdated(rs, isFinalReading, t) ==
  IF isFinalReading THEN getSPO2RiskFinal(rs, getAverageSPO2(rs, t), t)
  ELSE getSPO2RiskRealtime(rs, t)
getSPO2Risk(rs, spo2, isFinalReading, t) ==
  IF spo2 <= 0 THEN RiskReturn(rs, NoSegment)
  ELSE getSPO2RiskUpdated(updateSPO2History(rs, spo2, t), isFinalReading, t)

\* const [systolic, diastolic] = pressure.split('/').map(Number), line 261;
\* a missing element is undefined, which the test of line 262 treats as NaN
NumberAt(parts, i) == IF i <= Len(parts) THEN ToNumber(parts[i]) ELSE NaN
SplitPressureSwapped(pressure) ==
  <<NumberAt(Split(pressure, "/"), 2), NumberAt(Split(pressure, "/"), 1)>>
SplitPressure(pressure) ==
  <<NumberAt(Split(pressure, "/"), 1), NumberAt(Split(pressure, "/"), 2)>>
\* !x for a number: true for 0 and NaN
Falsy(x) == x = 0 \/ IsNaN(x)

\* lines 293-325
getBPRiskRealtimeOf(rs, currentSegment) ==
  RiskReturn(IF currentSegment.label # "EVALUANDO..."
             THEN [rs EXCEPT !.bpSegmentHistory = Append(@, currentSegment)]
             ELSE rs,
             currentSegment)
getBPRiskRealtime(rs, t) ==
  getBPRiskRealtimeOf(rs,
    IF isStableBP(rs, 150, 300, 100, 200, t)
      THEN Segment("#ea384c", "PRESION ALTA")
    ELSE IF isStableBP(rs, 140, 149, 90, 99, t)
      THEN Segment("#F97316", "LEVE PRESION ALTA")
    ELSE IF isStableBP(rs, 114, 126, 76, 84, t)
      THEN Segment("#0EA5E9", "PRESION NORMAL")
    ELSE IF isStableBP(rs, 100, 110, 60, 70, t)
      THEN Segment("#F97316", "LEVE PRESION BAJA")
    ELSE EVALUANDO)
\* lines 269-291
getBPRiskFinal(rs, avgBP, t) ==
  IF avgBP.systolic > 0 /\ avgBP.diastolic > 0
     /\ avgBP.systolic >= 150 /\ avgBP.diastolic >= 100
    THEN RiskReturn(rs, Segment("#ea384c", "PRESION ALTA"))
  ELSE IF avgBP.systolic > 0 /\ avgBP.diastolic > 0
          /\ avgBP.systolic >= 140 /\ avgBP.diastolic >= 90
    THEN RiskReturn(rs, Segment("#F97316", "LEVE PRESION ALTA"))
  ELSE IF avgBP.systolic >= 114 /\ avgBP.systolic <= 126
          /\ avgBP.diastolic >= 76 /\ avgBP.diastolic <= 84
    THEN RiskReturn(rs, Segment("#0EA5E9", "PRESION NORMAL"))
  ELSE IF avgBP.systolic >= 100 /\ avgBP.systolic <= 110
          /\ avgBP.diastolic >= 60 /\ avgBP.diastolic <= 70
    THEN RiskReturn(rs, Segment("#F97316", "LEVE PRESION BAJA"))
  ELSE IF Len(rs.bpSegmentHistory) > 0
    THEN RiskReturn(rs, getMostFrequentSegment(rs.bpSegmentHistory))
  ELSE getBPRiskRealtime(rs, t)
getBPRiskUpdated(rs, isFinalReading, t) ==
  IF isFinalReading THEN getBPRiskFinal(rs, getAverageBP(rs, t), t)
  ELSE getBPRiskRealtime(rs, t)
getBPRiskParsed(rs, parts, isFinalReading, t) ==
  IF Falsy(parts[1]) \/ Falsy(parts[2]) THEN RiskReturn(rs, EVALUANDO)
  ELSE getBPRiskUpdated(updateBPHistory(rs, parts[1], parts[2], t),
                        isFinalReading, t)
getBPRisk(rs, pressure, isFinalReading, t) ==
  IF pressure = ZeroPressure \/ pressure = Dashes THEN RiskReturn(rs, NoSegment)
  ELSE getBPRiskParsed(rs, SplitPressure(pressure), isFinalReading, t)

\* lines 328-337
resetHistory(rs) == RiskFresh

(* The reading driver.  A session is one user of the class (a mounted       *)
(* monitor with its VitalSign displays); each call is made RiskTickMs after *)
(* the previous one.  A session presents the readings of one profile to one *)
(* of the three methods, in real-time or final mode, and changes that       *)
(* setting at most MaxRiskChanges times, within the first calls of the run. *)
(* Next to the static fields every session keeps `solo`: the fields as they *)
(* would be had its own calls been the only ones.                           *)
Sessions == {"A", "B"}
MaxRiskCalls == 45
RiskSwitchBy == 6
MaxRiskChanges == 1
MaxRiskResets == 1
RiskTickMs == 1000
MaxSessionCalls == 5

Profiles == {"normal", "high", "low", "none"}
ReadingOf(profile) ==
  CASE profile = "normal" -> [bpm |-> 75, spo2 |-> 97, pressure |-> PressureString(120, 80)]
    [] profile = "high" -> [bpm |-> 150, spo2 |-> 88, pressure |-> PressureString(155, 105)]
    [] profile = "low" -> [bpm |-> 35, spo2 |-> 91, pressure |-> PressureString(105, 65)]
    [] profile = "none" -> [bpm |-> 0, spo2 |-> 0, pressure |-> Dashes]

RiskSetting(op, profile, final) ==
  [op |-> op, profile |-> profile, final |-> final]
RiskInit ==
  risk = [st |-> RiskFresh, solo |-> [s \in Sessions |-> RiskFresh],
          clock |-> StartTime, calls |-> 0, resets |-> 0,
          op |-> "new", who |-> "A", out |-> NoSegment, soloOut |-> NoSegment,
          last |-> [s \in Sessions |->
                      RiskSetting("bpm", IF s = "A" THEN "normal" ELSE "high",
                                  FALSE)],
          changes |-> [s \in Sessions |-> 0]]

RiskAllowed(s, setting, limit, switchBy) ==
  /\ risk.calls < limit
  /\ \/ setting = risk.last[s]
     \/ risk.changes[s] < MaxRiskChanges /\ risk.calls < switchBy

\* session s has called a method with this setting: r is what the call
\* made of the static fields, alone what it made of the session's own
RiskCalled(s, setting, r, alone) ==
  risk' = [risk EXCEPT
             !.st = r.rs, !.out = r.out,
             !.solo[s] = alone.rs, !.soloOut = alone.out,
             !.clock = risk.clock + RiskTickMs, !.calls = risk.calls + 1,
             !.op = setting.op, !.who = s, !.last[s] = setting,
             !.changes[s] = IF setting = risk.last[s] THEN @ ELSE @ + 1]

RiskGetBPM(sessions, limit, switchBy) ==
  \E s \in sessions, profile \in Profiles, final \in BOOLEAN :
    /\ RiskAllowed(s, RiskSetting("bpm", profile, final), limit, switchBy)
    /\ \E r \in {getBPMRisk(risk.st, ReadingOf(profile).bpm, final,
                            risk.clock + RiskTickMs)},
          alone \in {getBPMRisk(risk.solo[s], ReadingOf(profile).bpm, final,
                                risk.clock + RiskTickMs)} :
         RiskCalled(s, RiskSetting("bpm", profile, final), r, alone)
RiskGetSPO2(sessions, limit, switchBy) ==
  \E s \in sessions, profile \in Profiles, final \in BOOLEAN :
    /\ RiskAllowed(s, RiskSetting("spo2", profile, final), limit, switchBy)
    /\ \E r \in {getSPO2Risk(risk.st, ReadingOf(profile).spo2, final,
                             risk.clock + RiskTickMs)},
          alone \in {getSPO2Risk(risk.solo[s], ReadingOf(profile).spo2, final,
                                 risk.clock + RiskTickMs)} :
         RiskCalled(s, RiskSetting("spo2", profile, final), r, alone)
RiskGetBP(sessions, limit, switchBy) ==
  \E s \in sessions, profile \in Profiles, final \in BOOLEAN :
    /\ RiskAllowed(s, RiskSetting("bp", profile, final), limit, switchBy)
    /\ \E r \in {getBPRisk(risk.st, ReadingOf(profile).pressure, final,
                           risk.clock + RiskTickMs)},
          alone \in {getBPRisk(risk.solo[s], ReadingOf(profile).pressure,
                               final, risk.clock + RiskTickMs)} :
         RiskCalled(s, RiskSetting("bp", profile, final), r, alone)
RiskResetHistory(sessions, switchBy) ==
  \E s \in sessions :
    /\ risk.resets < MaxRiskResets
    /\ risk.calls > 0 /\ risk.calls < switchBy
    /\ risk.op # "resetHistory"
    /\ risk' = [risk EXCEPT !.st = resetHistory(risk.st),
                            !.solo[s] = resetHistory(risk.solo[s]),
                            !.op = "resetHistory", !.who = s,
                            !.resets = risk.resets + 1]

-----------------------------------------------------------------------------
(* createBloodPressureStabilizer (src/unnamed/part_002).  A stabilizer is   *)
(* the record of its closure variables bpHistoryRef, bpQualityRef and       *)
(* lastValidBpRef.  Qualities are kept doubled so that the default 0.5 is   *)
(* the integer 1; medians and quartiles are kept doubled as well.           *)
BP_BUFFER_SIZE == 8
MIN_GAP == 30

StabFresh ==
  [bpHistoryRef |-> <<>>, bpQualityRef |-> <<>>,
   lastValidBpRef |-> DefaultPressure]
\* reset, lines 17-21
stabReset(st) == StabFresh

\* isBloodPressureUnrealistic, lines 26-47
UnrealisticParts(systolic, diastolic) ==
  \/ IsNaN(systolic) \/ IsNaN(diastolic)
  \/ systolic > 300 \/ systolic < 60
  \/ diastolic > 200 \/ diastolic < 30
  \/ systolic <= diastolic
UnrealisticSplit(bpParts) ==
  \/ Len(bpParts) # 2
  \/ UnrealisticParts(parseInt(bpParts[1]), parseInt(bpParts[2]))
isBloodPressureUnrealistic(rawBP) ==
  \/ rawBP = Dashes \/ rawBP = ZeroPressure
  \/ UnrealisticSplit(Split(rawBP, "/"))

\* calculateMedian, lines 52-59, times 2
Median2Sorted(sortedValues) ==
  IF Len(sortedValues) % 2 = 0
  THEN sortedValues[Len(sortedValues) \div 2]
       + sortedValues[Len(sortedValues) \div 2 + 1]
  ELSE 2 * sortedValues[Len(sortedValues) \div 2 + 1]
calculateMedian2(values) == Median2Sorted(SortAsc(values))

\* lines 110-112: q3 - q1 of a sorted list, times 2
Iqr2(sorted) ==
  calculateMedian2(SubSeq(sorted, (Len(sorted) + 1) \div 2 + 1, Len(sorted)))
  - calculateMedian2(SubSeq(sorted, 1, Len(sorted) \div 2))
\* lines 119-126: v within median -/+ 1.5 * IQR
WithinIqr(v, median2, iqr2) ==
  /\ 4 * v >= 2 * median2 - 3 * iqr2
  /\ 4 * v <= 2 * median2 + 3 * iqr2

\* lines 97-100
BpValues(bpHistoryRef) ==
  [i \in 1..Len(bpHistoryRef) |->
     [systolic |-> ToNumber(Split(bpHistoryRef[i], "/")[1]),
      diastolic |-> ToNumber(Split(bpHistoryRef[i], "/")[2])]]

\* lines 136-149: the quality of valid value number i is bpQualityRef[i] (the
\* index counts the valid values), 0.5 when that is 0
Quality2At(bpQualityRef, i) ==
  IF bpQualityRef[i] = 0 THEN 1 ELSE 2 * bpQualityRef[i]
WeightedMean(valid, field, bpQualityRef) ==
  Round(SumSeq([i \in 1..Len(valid) |->
                  valid[i][field] * Quality2At(bpQualityRef, i)]),
        SumSeq([i \in 1..Len(valid) |-> Quality2At(bpQualityRef, i)]))

\* x || fallback for a number x
OrElse(x, fallback) == IF x = 0 \/ IsNaN(x) THEN fallback ELSE x

\* A call returns [st, out]: the closure variables after it and its result
StabReturn(st, out) == [st |-> st, out |-> out]
StabStore(st, bp) == StabReturn([st EXCEPT !.lastValidBpRef = bp], bp)

\* lines 162-180; the variations are (Math.random() - 0.5) * 5 and
\* (Math.random() - 0.5) * 3, given in tenths
StabAdjusted(st, smoothedSystolic, smoothedDiastolic) ==
  StabStore(st, PressureString(smoothedSystolic,
                               MinOf(smoothedDiastolic,
                                     smoothedSystolic - MIN_GAP)))
StabSmoothed(st, finalSystolic, finalDiastolic, lastBpParts, varS, varD) ==
  StabAdjusted(
    st,
    Round(4 * OrElse(ToNumber(lastBpParts[1]), 120) + 6 * finalSystolic + varS,
          10),
    Round(4 * OrElse(ToNumber(lastBpParts[2]), 80) + 6 * finalDiastolic + varD,
          10))
\* lines 128-155
StabOfValid(st, validBpValues, systolicMedian2, diastolicMedian2, varS, varD) ==
  IF Len(validBpValues) = 0
  THEN StabStore(st, PressureString(Round(systolicMedian2, 2),
                                    Round(diastolicMedian2, 2)))
  ELSE StabSmoothed(st,
                    WeightedMean(validBpValues, "systolic", st.bpQualityRef),
                    WeightedMean(validBpValues, "diastolic", st.bpQualityRef),
                    Split(st.lastValidBpRef, "/"), varS, varD)
\* lines 103-126
StabOfSorted(st, bpValues, systolicValues, diastolicValues, varS, varD) ==
  StabOfValid(
    st,
    SelectSeq(bpValues,
              LAMBDA bp :
                /\ WithinIqr(bp.systolic, calculateMedian2(systolicValues),
                             Iqr2(systolicValues))
                /\ WithinIqr(bp.diastolic, calculateMedian2(diastolicValues),
                             Iqr2(diastolicValues))),
    calculateMedian2(systolicValues), calculateMedian2(diastolicValues),
    varS, varD)
StabOfValues(st, bpValues, varS, varD) ==
  StabOfSorted(st, bpValues,
               SortAsc([i \in 1..Len(bpValues) |-> bpValues[i].systolic]),
               SortAsc([i \in 1..Len(bpValues) |-> bpValues[i].diastolic]),
               varS, varD)
\* lines 90-100: st holds the pushed reading
StabOfHistory(st, rawBP, varS, varD) ==
  IF Len(st.bpHistoryRef) < 3 THEN StabStore(st, rawBP)
  ELSE StabOfValues(st, BpValues(st.bpHistoryRef), varS, varD)
\* lines 80-88
StabPushed(st, rawBP, quality) ==
  [st EXCEPT !.bpHistoryRef = PushCap(@, rawBP, BP_BUFFER_SIZE),
             !.bpQualityRef = PushCap(@, quality, BP_BUFFER_SIZE)]
\* stabilizeBloodPressure(rawBP, quality), lines 64-181, with the two
\* random variations the call draws
stabilizeBloodPressure(st, rawBP, quality, varS, varD) ==
  IF rawBP = Dashes \/ rawBP = ZeroPressure THEN StabReturn(st, rawBP)
  ELSE IF Len(Split(rawBP, "/")) # 2 \/ isBloodPressureUnrealistic(rawBP)
    THEN StabReturn(st, IF Len(st.lastValidBpRef) = 0 THEN DefaultPressure
                        ELSE st.lastValidBpRef)
  ELSE StabOfHistory(StabPushed(st, rawBP, quality), rawBP, varS, varD)

(* The reading driver.  Two stabilizers are created (or reset) together and *)
(* are given the same rawBP and quality at every call; each call draws its  *)
(* own random variations.  The reading changes at most MaxStabChanges times.*)
MaxStabCalls == 4
MaxStabChanges == 1
MaxStabResets == 1
RawPressures ==
  {PressureString(120, 80), PressureString(100, 90), PressureString(150, 95),
   PressureString(400, NaN), ZeroPressure}
Qualities == {0, 80}
\* some of the values (Math.random() - 0.5) * 5 and (Math.random() - 0.5) * 3
\* can take, in tenths
SystolicVariations == {-25, 24}
DiastolicVariations == {-15, 14}

StabInit ==
  stab = [one |-> StabFresh, two |-> StabFresh, outOne |-> <<>>,
          outTwo |-> <<>>, op |-> "new", rawBP |-> <<>>, quality |-> 0,
          calls |-> 0, changes |-> 0, resets |-> 0]

StabCall(limit) ==
  /\ stab.calls < limit
  /\ \E rawBP \in RawPressures, quality \in Qualities :
       /\ stab.calls > 0 /\ <<rawBP, quality>> # <<stab.rawBP, stab.quality>>
            => stab.changes < MaxStabChanges
       /\ \E r1 \in {stabilizeBloodPressure(stab.one, rawBP, quality, vs, vd) :
                       vs \in SystolicVariations, vd \in DiastolicVariations},
             r2 \in {stabilizeBloodPressure(stab.two, rawBP, quality, vs, vd) :
                       vs \in SystolicVariations, vd \in DiastolicVariations} :
            stab' = [stab EXCEPT
                       !.one = r1.st, !.outOne = r1.out,
                       !.two = r2.st, !.outTwo = r2.out,
                       !.op = "stabilize", !.rawBP = rawBP,
                       !.quality = quality, !.calls = stab.calls + 1,
                       !.changes =
                         IF stab.calls > 0
                            /\ <<rawBP, quality>> # <<stab.rawBP, stab.quality>>
                         THEN @ + 1 ELSE @]
StabResetBoth ==
  /\ stab.resets < MaxStabResets
  /\ stab.op = "stabilize"
  /\ stab' = [stab EXCEPT !.one = stabReset(stab.one),
                          !.two = stabReset(stab.two),
                          !.op = "reset", !.resets = stab.resets + 1]

-----------------------------------------------------------------------------
(* Output strings on their way to their consumers.  processSignal builds    *)
(* the pressure string (VitalSignsProcessor.ts:146-149) that getBPRisk      *)
(* splits (part_003:261); the arrhythmia status '<LABEL>|<count>' is split  *)
(* by getArrhythmiaDisplay (PPGSignalMeter.tsx:535-536).                    *)
MaxWireSystolic == 200
MaxWireDiastolic == 130
MaxWireCount == 120

ARRHYTHMIA_DETECTED == <<"A", "R", "R", "I", "T", "M", "I", "A", " ", "D", "E", "T", "E", "C", "T", "A", "D", "A">>
NO_ARRHYTHMIAS == <<"S", "I", "N", " ", "A", "R", "R", "I", "T", "M", "I", "A", "S">>
CALIBRATING == <<"C", "A", "L", "I", "B", "R", "A", "N", "D", "O">>
StatusLabels == {ARRHYTHMIA_DETECTED, NO_ARRHYTHMIAS, CALIBRATING}

\* `${label}|${count}`
StatusString(label, count) == label \o <<"|">> \o NumberToString(count)

\* const [status, countStr] = String(value).split('|');
\* const count = parseInt(countStr || "0", 10);
CountStr(parts) == IF Len(parts) < 2 \/ parts[2] = <<>> THEN <<"0">> ELSE parts[2]
StatusParts(parts) == <<parts[1], parseInt(CountStr(parts))>>
getArrhythmiaDisplayParts(value) == StatusParts(Split(value, "|"))

WireIdle == [kind |-> "none", stage |-> "idle", sent |-> <<>>, text |-> <<>>,
             parsed |-> <<>>]
WireInit == wire = WireIdle
WireInput(kind, sent) ==
  [kind |-> kind, stage |-> "input", sent |-> sent, text |-> <<>>,
   parsed |-> <<>>]
WireInputs ==
  {WireInput("pressure", <<s, d>>) :
     s \in 0..MaxWireSystolic, d \in 0..MaxWireDiastolic}
  \cup {WireInput("status", <<l, c>>) : l \in StatusLabels, c \in 0..MaxWireCount}

\* the producer writes the string
WireEmitPressure ==
  /\ wire.stage = "input" /\ wire.kind = "pressure"
  /\ wire' = [wire EXCEPT !.stage = "emitted",
                          !.text = PressureString(wire.sent[1], wire.sent[2])]
WireEmitStatus ==
  /\ wire.stage = "input" /\ wire.kind = "status"
  /\ wire' = [wire EXCEPT !.stage = "emitted",
                          !.text = StatusString(wire.sent[1], wire.sent[2])]
\* the consumer reads it back
WireGetBPRisk ==
  /\ wire.stage = "emitted" /\ wire.kind = "pressure"
  /\ wire' = [wire EXCEPT !.stage = "parsed", !.parsed = SplitPressure(wire.text)]
WireGetArrhythmiaDisplay ==
  /\ wire.stage = "emitted" /\ wire.kind = "status"
  /\ wire' = [wire EXCEPT !.stage = "parsed",
                          !.parsed = getArrhythmiaDisplayParts(wire.text)]

ProbeIdle == [fn |-> "none", args |-> <<>>, result |-> <<>>, done |-> FALSE]
ProbeInit == probe = ProbeIdle
ProbeCall(fn, args) == [fn |-> fn, args |-> args, result |-> <<>>, done |-> FALSE]
ProbeReturn(result) == [probe EXCEPT !.result = result, !.done = TRUE]

\* findPeaksAndValleys applied to every window of up to MaxScanLength samples
\* over ScanLevels
MaxScanLength == 11
ScanLevels == {0, 1, NaN}
\* the driver extends the window by one sample
ProbeAppendSample ==
  /\ probe.fn = "findPeaksAndValleys" /\ ~probe.done
  /\ Len(probe.args[1]) < MaxScanLength
  /\ \E v \in ScanLevels :
       probe' = [probe EXCEPT !.args = <<Append(probe.args[1], v)>>]
ProbeFindPeaksAndValleys ==
  /\ probe.fn = "findPeaksAndValleys" /\ ~probe.done
  /\ probe' = ProbeReturn(findPeaksAndValleys(probe.args[1]))

\* the irregularity criterion of detectAF applied to every history of up to
\* MaxProbeIntervals accepted intervals over ProbeIntervals
MaxProbeIntervals == 11
ProbeIntervals == {800, 1000}
ProbeAddRRInterval ==
  /\ probe.fn = "detectAF" /\ ~probe.done
  /\ Len(probe.args[1]) < MaxProbeIntervals
  /\ \E interval \in ProbeIntervals :
       /\ AcceptsInterval(interval)
       /\ probe' = [probe EXCEPT !.args = <<Append(probe.args[1], interval)>>]
ProbeDetectAF ==
  /\ probe.fn = "detectAF" /\ ~probe.done
  /\ Len(probe.args[1]) >= MIN_ANALYSIS_INTERVALS
  /\ probe' = ProbeReturn(HighIrregularity(probe.args[1]))

\* SpO2Processor.addRawValue called with a series of raw values: the driver
\* chooses freely for the first MaxRawChoices calls and repeats its last
\* choice afterwards; probe.result is the processor
MaxRawCalls == 44
MaxRawChoices == 5
RawValues == {89, 95, 97}
ProbeAddRawValue ==
  /\ probe.fn = "addRawValue"
  /\ Len(probe.args[1]) < MaxRawCalls
  /\ \E value \in RawValues :
       /\ IF Len(probe.args[1]) < MaxRawChoices THEN TRUE
          ELSE value = probe.args[1][Len(probe.args[1])]
       /\ probe' = [probe EXCEPT !.args = <<Append(probe.args[1], value)>>,
                                 !.result = addRawValue(probe.result, value),
                                 !.done = TRUE]
\* SpO2Processor driven as SpO2Calculator.calculate drives it (part_001
\* lines 144-158): addRawValue(rawSpO2), then processValue of the raw value
\* plus the calibration offset, clamped to [90, 100].  The driver chooses
\* freely for the first MaxProcessChoices calls and repeats its last choice
\* afterwards; probe.result is the processor and the value returned
MaxProcessCalls == 12
MaxProcessChoices == 4
ProcessRaws == {90, 95, 100}
ProcessOffsets == {0, 2}
ProcessFresh == [processor |-> ProcessorInit, returned |-> 0]
ProbeProcessValue ==
  /\ probe.fn = "processValue"
  /\ Len(probe.args[1]) < MaxProcessCalls
  /\ \E rawSpO2 \in ProcessRaws, offset \in ProcessOffsets :
       /\ IF Len(probe.args[1]) < MaxProcessChoices THEN TRUE
          ELSE <<rawSpO2, offset>> = probe.args[1][Len(probe.args[1])]
       /\ \E pv \in {processValue(
                        addRawValue(probe.result.processor, rawSpO2),
                        Calibrated([calibration |->
                                      [calibrated |-> offset # 0,
                                       offset |-> offset]], rawSpO2))} :
            probe' = [probe EXCEPT
                        !.args = <<Append(probe.args[1], <<rawSpO2, offset>>)>>,
                        !.result = [processor |-> pv[1], returned |-> pv[2]],
                        !.done = TRUE]
\* the display smoothing of SpO2Calculator.calculate (part_001:160-180) fed
\* a series of processed values: probe.args[1] are the values written so
\* far, probe.result the result buffer, its write index and the smoothed value
MaxResultWrites == 7
ResultLevels == {90, 95, 100}
SmoothingFresh ==
  [previousResults |-> <<0, 0, 0, 0, 0>>, resultIndex |-> 0, finalSpO2 |-> 0]
SmoothingOf(results, resultIndex, processedSpO2) ==
  [previousResults |-> results, resultIndex |-> resultIndex,
   finalSpO2 |-> WeightedResult(results, resultIndex, processedSpO2)]
DisplaySmoothing(sm, processedSpO2) ==
  SmoothingOf([sm.previousResults EXCEPT ![sm.resultIndex + 1] = processedSpO2],
              (sm.resultIndex + 1) % RESULT_BUFFER_SIZE, processedSpO2)
ProbeDisplaySmoothing ==
  /\ probe.fn = "displaySmoothing"
  /\ Len(probe.args[1]) < MaxResultWrites
  /\ \E processedSpO2 \in ResultLevels :
       probe' = [probe EXCEPT
                   !.args = <<Append(probe.args[1], processedSpO2)>>,
                   !.result = DisplaySmoothing(probe.result, processedSpO2),
                   !.done = TRUE]

\* stabilizeBloodPressure applied to every series of up to MaxWeighedReadings
\* realistic readings over WeighedPressures with qualities over
\* WeighedQualities; probe.result is the stabilizer after the call
MaxWeighedReadings == 4
WeighedPressures ==
  {PressureString(150, 95), PressureString(120, 80), PressureString(124, 84)}
WeighedQualities == {20, 80}
ProbeStabilizeBloodPressure ==
  /\ probe.fn = "stabilizeBloodPressure"
  /\ Len(probe.result.bpHistoryRef) < MaxWeighedReadings
  /\ \E rawBP \in WeighedPressures, quality \in WeighedQualities :
       \E r \in {stabilizeBloodPressure(probe.result, rawBP, quality, vs, vd) :
                    vs \in SystolicVariations, vd \in DiastolicVariations} :
         probe' = [probe EXCEPT !.args = <<rawBP, quality, r.out>>,
                                !.result = r.st, !.done = TRUE]

-----------------------------------------------------------------------------
(* The Index page (Index.tsx).  Its fields are the React state and the refs *)
(* of the component; risk is the class VitalSignsRisk, which only this page *)
(* calls (VitalSign.tsx does not).  A handler run from a button or an       *)
(* effect sees the state of the latest render; the interval callback made   *)
(* by startMonitoring keeps the stopMonitoringOnly of the render in which   *)
(* the button was pressed, so it sees heartRate and vitalSigns as they were *)
(* then: measurementTimerRef holds that closure.  The processors that       *)
(* resetHeartBeat and resetVitalSigns reset are other components; what they *)
(* return to the effect is drawn from PageBpms and PageVitals.              *)
MEASUREMENT_SECONDS == 40
NoStatus == <<"-", "-">>

PageFresh ==
  [isMonitoring |-> FALSE, isCameraOn |-> FALSE, signalQuality |-> 0,
   vitalSigns |-> [spo2 |-> 0, pressure |-> Dashes,
                   arrhythmiaStatus |-> NoStatus],
   heartRate |-> 0, arrhythmiaCount |-> NoStatus, elapsedTime |-> 0,
   lastArrhythmiaData |-> FALSE, measurementComplete |-> FALSE,
   finalValues |-> <<>>, measurementTimerRef |-> <<>>,
   hasValidValuesRef |-> FALSE, risk |-> RiskFresh, op |-> "new"]
PageInit == page = PageFresh

\* what a render hands to the handlers it creates
PageClosure(p) == [heartRate |-> p.heartRate, vitalSigns |-> p.vitalSigns]
\* Date.now(), counted from the start of the measurement
PageNow(p) == p.elapsedTime * 1000

\* calculateFinalValues, lines 50-117, in the closure c, with rs the class
\* VitalSignsRisk
FinalValuesOf(c, avgBPM, avgSPO2, avgBP) ==
  [heartRate |-> IF avgBPM > 0 THEN avgBPM ELSE c.heartRate,
   spo2 |-> IF avgSPO2 > 0 THEN avgSPO2 ELSE c.vitalSigns.spo2,
   pressure |-> IF avgBP.systolic > 0 /\ avgBP.diastolic > 0
                THEN PressureString(avgBP.systolic, avgBP.diastolic)
                ELSE c.vitalSigns.pressure]
calculateFinalValues(p, c, rs, t) ==
  IF c.heartRate <= 0 /\ c.vitalSigns.spo2 <= 0 THEN [p EXCEPT !.risk = rs]
  ELSE [p EXCEPT !.risk = rs,
                 !.finalValues = <<FinalValuesOf(c, getAverageBPM(rs, t),
                                                 getAverageSPO2(rs, t),
                                                 getAverageBP(rs, t))>>,
                 !.hasValidValuesRef = TRUE]

\* stopMonitoringOnly, lines 165-218: the three risk evaluations
RiskAfterBPM(rs, c, t) ==
  IF c.heartRate > 0 THEN getBPMRisk(rs, c.heartRate, TRUE, t).rs ELSE rs
RiskAfterBP(rs, c, t) ==
  IF c.vitalSigns.pressure # Dashes /\ c.vitalSigns.pressure # ZeroPressure
  THEN getBPRisk(rs, c.vitalSigns.pressure, TRUE, t).rs ELSE rs
RiskAfterSPO2(rs, c, t) ==
  IF c.vitalSigns.spo2 > 0 THEN getSPO2Risk(rs, c.vitalSigns.spo2, TRUE, t).rs
  ELSE rs
stopMonitoringOnly(p, c, t) ==
  calculateFinalValues(
    [p EXCEPT !.isMonitoring = FALSE, !.isCameraOn = FALSE,
              !.measurementComplete = TRUE, !.measurementTimerRef = <<>>],
    c, RiskAfterSPO2(RiskAfterBP(RiskAfterBPM(p.risk, c, t), c, t), c, t), t)

\* prepareProcessorsOnly, lines 152-162
prepareProcessorsOnly(p) ==
  [p EXCEPT !.elapsedTime = 0, !.risk = resetHistory(p.risk)]

\* startMonitoring, lines 119-149: the button INICIAR / DETENER
startMonitoring(p) ==
  IF p.isMonitoring THEN stopMonitoringOnly(p, PageClosure(p), PageNow(p))
  ELSE [prepareProcessorsOnly(p) EXCEPT
          !.isMonitoring = TRUE, !.isCameraOn = TRUE, !.elapsedTime = 0,
          !.measurementComplete = FALSE,
          !.measurementTimerRef = <<PageClosure(p)>>]

\* the interval callback, lines 139-147, with the closure the timer holds
TimerCallback(p) ==
  IF p.elapsedTime >= MEASUREMENT_SECONDS
  THEN [stopMonitoringOnly(p, p.measurementTimerRef[1], PageNow(p))
          EXCEPT !.elapsedTime = MEASUREMENT_SECONDS]
  ELSE [p EXCEPT !.elapsedTime = @ + 1]

\* handleReset, lines 221-262; confirmed is the answer to window.confirm
handleReset(p, confirmed) ==
  IF p.hasValidValuesRef /\ ~confirmed THEN p
  ELSE [PageFresh EXCEPT !.signalQuality = p.signalQuality]

\* the effect on lastSignal, lines 380-429, for a signal with a finger
\* detected: bpm is heartBeatResult.bpm, vitals what processVitalSigns
\* returned (<<>> for nothing)
VitalsApplied(vs, vitals) ==
  [spo2 |-> IF vitals.spo2 > 0 THEN vitals.spo2 ELSE vs.spo2,
   pressure |-> IF vitals.pressure # Dashes /\ vitals.pressure # ZeroPressure
                THEN vitals.pressure ELSE vs.pressure,
   arrhythmiaStatus |-> vitals.arrhythmiaStatus]
SignalMeasured(p, bpm, vitals) ==
  IF vitals = <<>>
  THEN [p EXCEPT !.heartRate = IF bpm > 0 THEN bpm ELSE @]
  ELSE [p EXCEPT
          !.heartRate = IF bpm > 0 THEN bpm ELSE @,
          !.vitalSigns = VitalsApplied(@, vitals[1]),
          !.lastArrhythmiaData =
            IF vitals[1].lastArrhythmiaData THEN TRUE ELSE @,
          !.arrhythmiaCount =
            IF vitals[1].lastArrhythmiaData
            THEN CountStr(Split(vitals[1].arrhythmiaStatus, "|")) ELSE @]
SignalEffect(p, bpm, vitals, quality) ==
  [(IF p.measurementComplete THEN p ELSE SignalMeasured(p, bpm, vitals))
     EXCEPT !.signalQuality = quality]

\* what the three displays show, lines 488-505
HeartRateDisplay(p) ==
  IF p.finalValues # <<>> THEN p.finalValues[1].heartRate ELSE p.heartRate
SpO2Display(p) ==
  IF p.finalValues # <<>> THEN p.finalValues[1].spo2 ELSE p.vitalSigns.spo2
PressureDisplay(p) ==
  IF p.finalValues # <<>> THEN p.finalValues[1].pressure
  ELSE p.vitalSigns.pressure

(* The user and the signal.  *)
PageBpms == {0, 75}
PageVitals ==
  [spo2 : {0, 97},
   pressure : {Dashes, ZeroPressure, PressureString(120, 80)},
   arrhythmiaStatus : {StatusString(NO_ARRHYTHMIAS, 0)},
   lastArrhythmiaData : {FALSE}]
  \cup
  [spo2 : {97}, pressure : {PressureString(120, 80)},
   arrhythmiaStatus : {StatusString(ARRHYTHMIA_DETECTED, 1)},
   lastArrhythmiaData : {TRUE}]
PageQualities == {80}

PageStartMonitoring ==
  page' = [startMonitoring(page) EXCEPT
             !.op = IF page.isMonitoring THEN "stop" ELSE "start"]
PageTimer ==
  /\ page.measurementTimerRef # <<>>
  /\ page' = [TimerCallback(page) EXCEPT
                !.op = IF page.elapsedTime >= MEASUREMENT_SECONDS
                       THEN "expiry" ELSE "tick"]
PageReset ==
  \E confirmed \in BOOLEAN :
    page' = [handleReset(page, confirmed) EXCEPT
               !.op = IF page.hasValidValuesRef /\ ~confirmed
                      THEN "declined" ELSE "reset"]
PageSignal ==
  /\ page.isMonitoring
  /\ \E bpm \in PageBpms, quality \in PageQualities,
        vitals \in {<<>>} \cup {<<v>> : v \in PageVitals} :
       page' = [SignalEffect(page, bpm, vitals, quality) EXCEPT !.op = "signal"]

UiInit == PageInit /\ PpgInit /\ HbInit

ExtInit ==
  SigInit /\ RiskInit /\ StabInit /\ WireInit /\ ProbeInit /\ UiInit

-----------------------------------------------------------------------------
(* Specifications.  The components are separate objects that share no      *)
(* state, so every specification drives one of them and leaves the others  *)
(* as constructed.                                                         *)

VSIdle ==
  /\ VSInit
  /\ gen.shape = "flat"
ADIdle == ADInitWith({<<800, 800>>})
CalcInit == BPInit /\ SpO2Init

\* VitalSignsProcessor fed by the sample driver
Init == VSInit /\ ADIdle /\ HookInit /\ CalcInit /\ ExtInit /\ focus = "vs"
Next ==
  \/ VSProcessSignal(MaxSamples) /\ UNCHANGED <<adVars, hookVars, calcVars, extVars, uiVars, focus>>
  \/ VSReset /\ UNCHANGED <<adVars, hookVars, calcVars, extVars, uiVars, focus>>
Spec == Init /\ [][Next]_vars

\* Recordings longer than the buffers: a run feeds the VitalSignsProcessor
\* more samples than its window holds, or the ArrhythmiaDetector more
\* intervals or more peak times than its history holds
LongBeats == 55
LongCleanBeats == 48
LongDev == 1
LongFocuses == {"long", "beats", "peaks"}
InitLong ==
  /\ focus \in LongFocuses
  /\ IF focus = "long" THEN VSInit ELSE VSIdle
  /\ IF focus = "long" THEN ADIdle ELSE ADInitWith({<<600, 900>>})
  /\ HookInit /\ CalcInit /\ ExtInit
NextLong ==
  \/ focus = "long" /\ VSFeed(GenChoicesLong, LongSamples)
       /\ UNCHANGED <<adVars, hookVars, calcVars, extVars, uiVars, focus>>
  \/ focus = "beats" /\ ADAddRRInterval(LongCleanBeats, LongBeats, LongDev)
       /\ UNCHANGED <<vsVars, hookVars, calcVars, extVars, uiVars, focus>>
  \/ focus = "peaks" /\ ADSetLastPeakTimeIf(FALSE, 0)
       /\ UNCHANGED <<vsVars, hookVars, calcVars, extVars, uiVars, focus>>
  \/ focus = "peaks" /\ ADTick(0, TickMs, MaxTicks)
       /\ UNCHANGED <<vsVars, hookVars, calcVars, extVars, uiVars, focus>>
SpecLong == InitLong /\ [][NextLong]_vars

\* VitalSignsProcessor on a weak signal
InitWeak ==
  /\ VSInit /\ gen.shape \in WeakShapes
  /\ ADIdle /\ HookInit /\ CalcInit /\ ExtInit /\ focus = "weak"
NextWeak ==
  VSFeed(GenChoicesWeak, WeakSamples)
    /\ UNCHANGED <<adVars, hookVars, calcVars, extVars, uiVars, focus>>
SpecWeak == InitWeak /\ [][NextWeak]_vars

\* VitalSignsProcessor at the start of a recording, with samples that are
\* not numbers
InitEarly ==
  /\ VSInit /\ gen.shape \in EarlyShapes
  /\ ADIdle /\ HookInit /\ CalcInit /\ ExtInit /\ focus = "early"
NextEarly ==
  VSFeed(GenChoicesEarly, EarlySamples)
    /\ UNCHANGED <<adVars, hookVars, calcVars, extVars, uiVars, focus>>
SpecEarly == InitEarly /\ [][NextEarly]_vars

Focuses == {"vs", "ad", "bp", "spo2"}

\* Every component with its reset(): a run exercises one of the processor
\* (one waveform, reset up to MaxResets times at the end of a pulse, the
\* waveform starting again after it), the detector and the two calculators
ResetSamples == 100
MaxResets == 2
ResetRhythms == {<<800, 800>>, <<600, 900>>}
InitReset ==
  /\ focus \in Focuses
  /\ IF focus = "vs" THEN VSInit ELSE VSIdle
  /\ IF focus = "ad" THEN ADInitWith(ResetRhythms) ELSE ADIdle
  /\ HookInit
  /\ CalcInit /\ ExtInit
NextReset ==
  \/ focus = "vs" /\ VSFeed({gen.shape}, ResetSamples)
       /\ UNCHANGED <<adVars, hookVars, calcVars, extVars, uiVars, focus>>
  \/ focus = "vs" /\ VSResetUpTo(MaxResets)
       /\ UNCHANGED <<adVars, hookVars, calcVars, extVars, uiVars, focus>>
  \/ focus = "ad" /\ ADAddRRInterval(CleanBeats, MaxBeats, MaxDev)
       /\ UNCHANGED <<vsVars, hookVars, calcVars, extVars, uiVars, focus>>
  \/ focus = "ad" /\ ADSetLastPeakTime(CleanBeats)
       /\ UNCHANGED <<vsVars, hookVars, calcVars, extVars, uiVars, focus>>
  \/ focus = "ad" /\ ADAnalyzeRhythm
       /\ UNCHANGED <<vsVars, hookVars, calcVars, extVars, uiVars, focus>>
  \/ focus = "ad" /\ ADReset(MaxDev)
       /\ UNCHANGED <<vsVars, hookVars, calcVars, extVars, uiVars, focus>>
  \/ focus = "ad" /\ ADTick(CleanBeats, TickMs, MaxTicks)
       /\ UNCHANGED <<vsVars, hookVars, calcVars, extVars, uiVars, focus>>
  \/ focus = "bp" /\ BPCalculate(MaxCalcCalls)
       /\ UNCHANGED <<vsVars, adVars, hookVars, spo2Calc, extVars, uiVars, focus>>
  \/ focus = "bp" /\ BPReset
       /\ UNCHANGED <<vsVars, adVars, hookVars, spo2Calc, extVars, uiVars, focus>>
  \/ focus = "spo2" /\ SpO2Calculate(MaxCalcCalls)
       /\ UNCHANGED <<vsVars, adVars, hookVars, bpCalc, extVars, uiVars, focus>>
  \/ focus = "spo2" /\ SpO2Reset
       /\ UNCHANGED <<vsVars, adVars, hookVars, bpCalc, extVars, uiVars, focus>>
  \/ focus = "spo2" /\ SpO2Tick(PerfTickMs, MaxPerfTicks)
       /\ UNCHANGED <<vsVars, adVars, hookVars, bpCalc, extVars, uiVars, focus>>
SpecReset == InitReset /\ [][NextReset]_vars

\* PPGSignalProcessor fed by the frame driver
InitSig == VSIdle /\ ADIdle /\ HookInit /\ CalcInit /\ ExtInit /\ focus = "sig"
NextSig ==
  \/ SigStart /\ UNCHANGED <<vsVars, adVars, hookVars, calcVars, risk, stab, wire, probe, uiVars, focus>>
  \/ SigStop /\ UNCHANGED <<vsVars, adVars, hookVars, calcVars, risk, stab, wire, probe, uiVars, focus>>
  \/ SigProcessFrame /\ UNCHANGED <<vsVars, adVars, hookVars, calcVars, risk, stab, wire, probe, uiVars, focus>>
SpecSig == InitSig /\ [][NextSig]_vars

\* VitalSignsRisk called by one session for longer than its time window
InitRisk == VSIdle /\ ADIdle /\ HookInit /\ CalcInit /\ ExtInit /\ focus = "risk"
NextRisk ==
  \/ RiskGetBPM({"A"}, MaxRiskCalls, RiskSwitchBy)
       /\ UNCHANGED <<vsVars, adVars, hookVars, calcVars, sig, stab, wire, probe, uiVars, focus>>
  \/ RiskGetSPO2({"A"}, MaxRiskCalls, RiskSwitchBy)
       /\ UNCHANGED <<vsVars, adVars, hookVars, calcVars, sig, stab, wire, probe, uiVars, focus>>
  \/ RiskGetBP({"A"}, MaxRiskCalls, RiskSwitchBy)
       /\ UNCHANGED <<vsVars, adVars, hookVars, calcVars, sig, stab, wire, probe, uiVars, focus>>
  \/ RiskResetHistory({"A"}, RiskSwitchBy)
       /\ UNCHANGED <<vsVars, adVars, hookVars, calcVars, sig, stab, wire, probe, uiVars, focus>>
SpecRisk == InitRisk /\ [][NextRisk]_vars

\* VitalSignsRisk called by one session for a few seconds, the reading
\* changing early
MaxStableCalls == 8
StableSwitchBy == 3
InitStable == VSIdle /\ ADIdle /\ HookInit /\ CalcInit /\ ExtInit /\ focus = "stable"
NextStable ==
  \/ RiskGetBPM({"A"}, MaxStableCalls, StableSwitchBy)
       /\ UNCHANGED <<vsVars, adVars, hookVars, calcVars, sig, stab, wire, probe, uiVars, focus>>
  \/ RiskGetSPO2({"A"}, MaxStableCalls, StableSwitchBy)
       /\ UNCHANGED <<vsVars, adVars, hookVars, calcVars, sig, stab, wire, probe, uiVars, focus>>
  \/ RiskGetBP({"A"}, MaxStableCalls, StableSwitchBy)
       /\ UNCHANGED <<vsVars, adVars, hookVars, calcVars, sig, stab, wire, probe, uiVars, focus>>
  \/ RiskResetHistory({"A"}, StableSwitchBy)
       /\ UNCHANGED <<vsVars, adVars, hookVars, calcVars, sig, stab, wire, probe, uiVars, focus>>
SpecStable == InitStable /\ [][NextStable]_vars

\* VitalSignsRisk called by two sessions in any interleaving
InitSessions ==
  VSIdle /\ ADIdle /\ HookInit /\ CalcInit /\ ExtInit /\ focus = "sessions"
NextSessions ==
  \/ RiskGetBPM(Sessions, MaxSessionCalls, MaxSessionCalls)
       /\ UNCHANGED <<vsVars, adVars, hookVars, calcVars, sig, stab, wire, probe, uiVars, focus>>
  \/ RiskGetSPO2(Sessions, MaxSessionCalls, MaxSessionCalls)
       /\ UNCHANGED <<vsVars, adVars, hookVars, calcVars, sig, stab, wire, probe, uiVars, focus>>
  \/ RiskGetBP(Sessions, MaxSessionCalls, MaxSessionCalls)
       /\ UNCHANGED <<vsVars, adVars, hookVars, calcVars, sig, stab, wire, probe, uiVars, focus>>
  \/ RiskResetHistory(Sessions, MaxSessionCalls)
       /\ UNCHANGED <<vsVars, adVars, hookVars, calcVars, sig, stab, wire, probe, uiVars, focus>>
SpecSessions == InitSessions /\ [][NextSessions]_vars

\* two blood-pressure stabilizers fed the same readings
InitStab == VSIdle /\ ADIdle /\ HookInit /\ CalcInit /\ ExtInit /\ focus = "stab"
NextStab ==
  \/ StabCall(MaxStabCalls)
       /\ UNCHANGED <<vsVars, adVars, hookVars, calcVars, sig, risk, wire, probe, uiVars, focus>>
  \/ StabResetBoth
       /\ UNCHANGED <<vsVars, adVars, hookVars, calcVars, sig, risk, wire, probe, uiVars, focus>>
SpecStab == InitStab /\ [][NextStab]_vars

\* output strings written by their producers and read by their consumers
InitWire ==
  /\ VSIdle /\ ADIdle /\ HookInit /\ CalcInit /\ SigInit /\ RiskInit /\ StabInit
  /\ ProbeInit /\ wire \in WireInputs /\ UiInit /\ focus = "wire"
NextWire ==
  \/ WireEmitPressure
       /\ UNCHANGED <<vsVars, adVars, hookVars, calcVars, sig, risk, stab, probe, uiVars, focus>>
  \/ WireEmitStatus
       /\ UNCHANGED <<vsVars, adVars, hookVars, calcVars, sig, risk, stab, probe, uiVars, focus>>
  \/ WireGetBPRisk
       /\ UNCHANGED <<vsVars, adVars, hookVars, calcVars, sig, risk, stab, probe, uiVars, focus>>
  \/ WireGetArrhythmiaDisplay
       /\ UNCHANGED <<vsVars, adVars, hookVars, calcVars, sig, risk, stab, probe, uiVars, focus>>
SpecWire == InitWire /\ [][NextWire]_vars

\* findPeaksAndValleys applied to drawn windows
InitScan ==
  /\ VSIdle /\ ADIdle /\ HookInit /\ CalcInit /\ SigInit /\ RiskInit /\ StabInit
  /\ WireInit /\ probe = ProbeCall("findPeaksAndValleys", <<<<>>>>)
  /\ UiInit /\ focus = "scan"
NextScan ==
  \/ ProbeAppendSample
       /\ UNCHANGED <<vsVars, adVars, hookVars, calcVars, sig, risk, stab, wire, uiVars, focus>>
  \/ ProbeFindPeaksAndValleys
       /\ UNCHANGED <<vsVars, adVars, hookVars, calcVars, sig, risk, stab, wire, uiVars, focus>>
SpecScan == InitScan /\ [][NextScan]_vars

\* the irregularity criterion of detectAF applied to drawn histories
InitIrregular ==
  /\ VSIdle /\ ADIdle /\ HookInit /\ CalcInit /\ SigInit /\ RiskInit /\ StabInit
  /\ WireInit /\ probe = ProbeCall("detectAF", <<<<>>>>)
  /\ UiInit /\ focus = "irregular"
NextIrregular ==
  \/ ProbeAddRRInterval
       /\ UNCHANGED <<vsVars, adVars, hookVars, calcVars, sig, risk, stab, wire, uiVars, focus>>
  \/ ProbeDetectAF
       /\ UNCHANGED <<vsVars, adVars, hookVars, calcVars, sig, risk, stab, wire, uiVars, focus>>
SpecIrregular == InitIrregular /\ [][NextIrregular]_vars

\* SpO2Processor.addRawValue fed a series of raw values
InitRaw ==
  /\ VSIdle /\ ADIdle /\ HookInit /\ CalcInit /\ SigInit /\ RiskInit /\ StabInit
  /\ WireInit
  /\ probe = [ProbeCall("addRawValue", <<<<>>>>) EXCEPT !.result = ProcessorInit]
  /\ UiInit /\ focus = "raw"
NextRaw ==
  ProbeAddRawValue
    /\ UNCHANGED <<vsVars, adVars, hookVars, calcVars, sig, risk, stab, wire, uiVars, focus>>
SpecRaw == InitRaw /\ [][NextRaw]_vars

\* BloodPressureCalculator fed windows of the calculator waveforms
InitPressure ==
  VSIdle /\ ADIdle /\ HookInit /\ CalcInit /\ ExtInit /\ focus = "pressure"
NextPressure ==
  \/ BPCalculate(MaxCalcCalls)
       /\ UNCHANGED <<vsVars, adVars, hookVars, spo2Calc, extVars, uiVars, focus>>
  \/ BPReset /\ UNCHANGED <<vsVars, adVars, hookVars, spo2Calc, extVars, uiVars, focus>>
SpecPressure == InitPressure /\ [][NextPressure]_vars

\* the display smoothing of SpO2Calculator fed a series of processed values
InitSmoothing ==
  /\ VSIdle /\ ADIdle /\ HookInit /\ CalcInit /\ SigInit /\ RiskInit /\ StabInit
  /\ WireInit
  /\ probe = [ProbeCall("displaySmoothing", <<<<>>>>)
                EXCEPT !.result = SmoothingFresh]
  /\ UiInit /\ focus = "smoothing"
NextSmoothing ==
  ProbeDisplaySmoothing
    /\ UNCHANGED <<vsVars, adVars, hookVars, calcVars, sig, risk, stab, wire, uiVars, focus>>
SpecSmoothing == InitSmoothing /\ [][NextSmoothing]_vars

\* one blood pressure stabilizer fed a series of realistic readings
InitWeights ==
  /\ VSIdle /\ ADIdle /\ HookInit /\ CalcInit /\ SigInit /\ RiskInit /\ StabInit
  /\ WireInit
  /\ probe = [ProbeCall("stabilizeBloodPressure", <<>>)
                EXCEPT !.result = StabFresh]
  /\ UiInit /\ focus = "weights"
NextWeights ==
  ProbeStabilizeBloodPressure
    /\ UNCHANGED <<vsVars, adVars, hookVars, calcVars, sig, risk, stab, wire, uiVars, focus>>
SpecWeights == InitWeights /\ [][NextWeights]_vars

\* the PPGSignalProcessor with hysteresis fed by its frame driver
InitHyst ==
  VSIdle /\ ADIdle /\ HookInit /\ CalcInit /\ ExtInit /\ focus = "hysteresis"
NextHyst ==
  \/ HystStart
       /\ UNCHANGED <<vsVars, adVars, hookVars, calcVars, extVars, page, hb, focus>>
  \/ HystStop
       /\ UNCHANGED <<vsVars, adVars, hookVars, calcVars, extVars, page, hb, focus>>
  \/ HystCalibrate
       /\ UNCHANGED <<vsVars, adVars, hookVars, calcVars, extVars, page, hb, focus>>
  \/ HystProcessFrame
       /\ UNCHANGED <<vsVars, adVars, hookVars, calcVars, extVars, page, hb, focus>>
SpecHyst == InitHyst /\ [][NextHyst]_vars

\* either PPGSignalProcessor fed by its frame driver, the first with at most
\* MaxFramesEither frames
MaxFramesEither == 16
InitFrames ==
  /\ VSIdle /\ ADIdle /\ HookInit /\ CalcInit /\ ExtInit
  /\ focus \in {"frames", "hysteresis"}
NextFrames ==
  \/ focus = "frames" /\ SigStart
       /\ UNCHANGED <<vsVars, adVars, hookVars, calcVars, risk, stab, wire, probe, uiVars, focus>>
  \/ focus = "frames" /\ SigStop
       /\ UNCHANGED <<vsVars, adVars, hookVars, calcVars, risk, stab, wire, probe, uiVars, focus>>
  \/ focus = "frames" /\ sig.frames < MaxFramesEither /\ SigProcessFrame
       /\ UNCHANGED <<vsVars, adVars, hookVars, calcVars, risk, stab, wire, probe, uiVars, focus>>
  \/ focus = "hysteresis" /\ HystStart
       /\ UNCHANGED <<vsVars, adVars, hookVars, calcVars, extVars, page, hb, focus>>
  \/ focus = "hysteresis" /\ HystStop
       /\ UNCHANGED <<vsVars, adVars, hookVars, calcVars, extVars, page, hb, focus>>
  \/ focus = "hysteresis" /\ HystCalibrate
       /\ UNCHANGED <<vsVars, adVars, hookVars, calcVars, extVars, page, hb, focus>>
  \/ focus = "hysteresis" /\ HystProcessFrame
       /\ UNCHANGED <<vsVars, adVars, hookVars, calcVars, extVars, page, hb, focus>>
SpecFrames == InitFrames /\ [][NextFrames]_vars

\* the useHeartBeatProcessor hook and its cleanup timers
InitHeartBeat ==
  VSIdle /\ ADIdle /\ HookInit /\ CalcInit /\ ExtInit /\ focus = "heartbeat"
NextHeartBeat ==
  \/ HbProcessSignal
       /\ UNCHANGED <<vsVars, adVars, hookVars, calcVars, extVars, page, ppg, focus>>
  \/ HbReset
       /\ UNCHANGED <<vsVars, adVars, hookVars, calcVars, extVars, page, ppg, focus>>
  \/ HbCleanMemory
       /\ UNCHANGED <<vsVars, adVars, hookVars, calcVars, extVars, page, ppg, focus>>
  \/ HbTimer
       /\ UNCHANGED <<vsVars, adVars, hookVars, calcVars, extVars, page, ppg, focus>>
  \/ HbIdle
       /\ UNCHANGED <<vsVars, adVars, hookVars, calcVars, extVars, page, ppg, focus>>
SpecHeartBeat == InitHeartBeat /\ [][NextHeartBeat]_vars

\* the SpO2Processor driven call by call, and the SpO2Calculator over
\* MaxOximeterCalls calls
MaxOximeterCalls == 6
InitOximeter ==
  /\ VSIdle /\ ADIdle /\ HookInit /\ CalcInit /\ SigInit /\ RiskInit /\ StabInit
  /\ WireInit /\ UiInit
  /\ \/ /\ focus = "processValue"
        /\ probe = [ProbeCall("processValue", <<<<>>>>)
                      EXCEPT !.result = ProcessFresh]
     \/ focus = "oximeter" /\ ProbeInit
NextOximeter ==
  \/ focus = "processValue" /\ ProbeProcessValue
       /\ UNCHANGED <<vsVars, adVars, hookVars, calcVars, sig, risk, stab, wire, uiVars, focus>>
  \/ focus = "oximeter" /\ SpO2Calculate(MaxOximeterCalls)
       /\ UNCHANGED <<vsVars, adVars, hookVars, bpCalc, extVars, uiVars, focus>>
  \/ focus = "oximeter" /\ SpO2Reset
       /\ UNCHANGED <<vsVars, adVars, hookVars, bpCalc, extVars, uiVars, focus>>
  \/ focus = "oximeter" /\ SpO2Tick(PerfTickMs, MaxPerfTicks)
       /\ UNCHANGED <<vsVars, adVars, hookVars, bpCalc, extVars, uiVars, focus>>
SpecOximeter == InitOximeter /\ [][NextOximeter]_vars

\* the Index page: the two buttons, the timer and the signal effect
InitPage ==
  /\ VSIdle /\ ADIdle /\ HookInit /\ CalcInit /\ ExtInit
  /\ focus = "page"
NextPage ==
  \/ PageStartMonitoring
       /\ UNCHANGED <<vsVars, adVars, hookVars, calcVars, extVars, ppg, hb, focus>>
  \/ PageTimer
       /\ UNCHANGED <<vsVars, adVars, hookVars, calcVars, extVars, ppg, hb, focus>>
  \/ PageReset
       /\ UNCHANGED <<vsVars, adVars, hookVars, calcVars, extVars, ppg, hb, focus>>
  \/ PageSignal
       /\ UNCHANGED <<vsVars, adVars, hookVars, calcVars, extVars, ppg, hb, focus>>
SpecPage == InitPage /\ [][NextPage]_vars

\* ArrhythmiaDetector fed by the beat driver
InitAD == VSIdle /\ ADInitWith(Rhythms) /\ HookInit /\ CalcInit /\ ExtInit /\ focus = "ad"
NextAD ==
  \/ ADAddRRInterval(CleanBeats, MaxBeats, MaxDev)
       /\ UNCHANGED <<vsVars, hookVars, calcVars, extVars, uiVars, focus>>
  \/ ADSetLastPeakTime(CleanBeats)
       /\ UNCHANGED <<vsVars, hookVars, calcVars, extVars, uiVars, focus>>
  \/ ADAnalyzeRhythm /\ UNCHANGED <<vsVars, hookVars, calcVars, extVars, uiVars, focus>>
  \/ ADReset(MaxDev) /\ UNCHANGED <<vsVars, hookVars, calcVars, extVars, uiVars, focus>>
  \/ ADTick(CleanBeats, TickMs, MaxTicks)
       /\ UNCHANGED <<vsVars, hookVars, calcVars, extVars, uiVars, focus>>
SpecAD == InitAD /\ [][NextAD]_vars

\* useArrhythmiaAnalyzer fed by the beat driver; the detector it holds is
\* also analysed directly
HookRhythms == {<<600, 900>>}
HookMaxDev == 0
InitHook == VSIdle /\ ADInitWith(HookRhythms) /\ HookInit /\ CalcInit /\ ExtInit
            /\ focus = "hook"
NextHook ==
  \/ HookProcessArrhythmia(CleanBeats, MaxBeats, HookMaxDev)
       /\ UNCHANGED <<vsVars, calcVars, extVars, uiVars, focus>>
  \/ HookReset(HookMaxDev) /\ UNCHANGED <<vsVars, calcVars, extVars, uiVars, focus>>
  \/ HookCleanMemory(HookMaxDev) /\ UNCHANGED <<vsVars, calcVars, extVars, uiVars, focus>>
  \/ HookTimerFires /\ UNCHANGED <<vsVars, calcVars, extVars, uiVars, focus>>
  \/ hook.created /\ ADAnalyzeRhythm
       /\ UNCHANGED <<vsVars, hookVars, calcVars, extVars, uiVars, focus>>
  \/ ADTick(0, ANALYSIS_COOLDOWN_MS, MaxTicks)
       /\ UNCHANGED <<vsVars, hookVars, calcVars, extVars, uiVars, focus>>
SpecHook == InitHook /\ [][NextHook]_vars

\* The scenario of a long clean rhythm followed by one premature beat and
\* its compensatory pause: ScenarioCleanBeats beats of 800 ms, then the
\* driver may deviate; the detector is analysed at any time
ScenarioCleanBeats == 30
ScenarioMaxBeats == 33
InitScenario == VSIdle /\ ADInitWith({<<800, 800>>}) /\ HookInit /\ CalcInit /\ ExtInit
                /\ focus = "scenario"
NextScenario ==
  \/ ADAddRRInterval(ScenarioCleanBeats, ScenarioMaxBeats, MaxDev)
       /\ UNCHANGED <<vsVars, hookVars, calcVars, extVars, uiVars, focus>>
  \/ ADAnalyzeRhythm /\ UNCHANGED <<vsVars, hookVars, calcVars, extVars, uiVars, focus>>
  \/ ADTick(ScenarioCleanBeats, TickMs, MaxTicks)
       /\ UNCHANGED <<vsVars, hookVars, calcVars, extVars, uiVars, focus>>
SpecScenario == InitScenario /\ [][NextScenario]_vars

\* Every estimator on little data: a run exercises one of the processor,
\* the detector and the two calculators; the beat driver may deviate in the
\* last four beats
MinSamples == 62
MinBeats == 10
InitMin ==
  /\ focus \in Focuses
  /\ IF focus = "vs" THEN VSInit ELSE VSIdle
  /\ IF focus = "ad" THEN ADInitWith(Rhythms) ELSE ADIdle
  /\ HookInit
  /\ CalcInit /\ ExtInit
NextMin ==
  \/ focus = "vs" /\ VSProcessSignal(MinSamples)
       /\ UNCHANGED <<adVars, hookVars, calcVars, extVars, uiVars, focus>>
  \/ focus = "vs" /\ VSReset
       /\ UNCHANGED <<adVars, hookVars, calcVars, extVars, uiVars, focus>>
  \/ focus = "ad" /\ ADAddRRInterval(MinBeats - 4, MinBeats, MaxDev)
       /\ UNCHANGED <<vsVars, hookVars, calcVars, extVars, uiVars, focus>>
  \/ focus = "ad" /\ ADAnalyzeRhythm
       /\ UNCHANGED <<vsVars, hookVars, calcVars, extVars, uiVars, focus>>
  \/ focus = "ad" /\ ADTick(MinBeats - 4, TickMs, MaxTicks)
       /\ UNCHANGED <<vsVars, hookVars, calcVars, extVars, uiVars, focus>>
  \/ focus = "bp" /\ BPCalculate(MaxCalcCalls)
       /\ UNCHANGED <<vsVars, adVars, hookVars, spo2Calc, extVars, uiVars, focus>>
  \/ focus = "bp" /\ BPReset
       /\ UNCHANGED <<vsVars, adVars, hookVars, spo2Calc, extVars, uiVars, focus>>
  \/ focus = "spo2" /\ SpO2Calculate(MaxCalcCalls)
       /\ UNCHANGED <<vsVars, adVars, hookVars, bpCalc, extVars, uiVars, focus>>
  \/ focus = "spo2" /\ SpO2Reset
       /\ UNCHANGED <<vsVars, adVars, hookVars, bpCalc, extVars, uiVars, focus>>
  \/ focus = "spo2" /\ SpO2Tick(PerfTickMs, MaxPerfTicks)
       /\ UNCHANGED <<vsVars, adVars, hookVars, bpCalc, extVars, uiVars, focus>>
SpecMin == InitMin /\ [][NextMin]_vars

-----------------------------------------------------------------------------
(* Properties of the ArrhythmiaDetector, checked under SpecAD              *)

InRangeRR(x) == x >= 300 /\ x <= 2000
\* a step that is a call of addRRInterval
AddStep ==
  /\ adLast'.op = "addRRInterval"
  /\ adLast' # adLast \/ rrIntervals' # rrIntervals

\* C3: addRRInterval with an interval below 300 or above 2000 leaves the
\* interval history, the amplitude history, the learning counter and the
\* learning flag unchanged; an interval in [300,2000] is appended unmodified;
\* every stored interval is in [300,2000] in every reachable state.
C3_Discard ==
  /\ [](\A i \in 1..Len(rrIntervals) : InRangeRR(rrIntervals[i]))
  /\ [][AddStep =>
          IF InRangeRR(adLast'.interval)
          THEN /\ rrIntervals' = PushCap(rrIntervals, adLast'.interval, 50)
               /\ Len(amplitudes') = Len(rrIntervals')
          ELSE UNCHANGED <<rrIntervals, amplitudes, learningPhaseCount,
                           learningPhase>>]_vars
C3_Witness ==
  /\ adLast.op = "addRRInterval"
  /\ adLast.interval = 2001
  /\ Len(rrIntervals) >= 20
  /\ rrIntervals[Len(rrIntervals)] = 2000

\* C4: the learning phase ends exactly when the 20th in-range interval since
\* construction or reset is accepted; once false the learning flag stays false
\* under addRRInterval, setLastPeakTime and analyzeRhythm; only reset()
\* returns it to true.
C4_Monotonic ==
  /\ [](learningPhase <=> adDrv.accepted < 20)
  /\ [][~learningPhase /\ learningPhase' => adLast'.op = "reset"]_vars
C4_Witness ==
  /\ ~learningPhase
  /\ adDrv.accepted = 21
  /\ lastPeakTime # NoTime
  /\ adLast.op = "analyzeRhythm"

\* C6: two calls of analyzeRhythm that return detected = true are at least
\* 1000 ms apart on the clock (adDrv.lastDetect is the time of the previous
\* detection of the session, adDrv.events counts the detections).
C6_Debounced ==
  [][adDrv'.events > adDrv.events /\ adDrv.lastDetect # -1
       => now' - adDrv.lastDetect >= 1000]_vars
C6_Witness ==
  /\ adLast.op = "analyzeRhythm"
  /\ adLast.result.detected
  /\ adDrv.events = 2
  /\ adLast.elapsed = 1000

IsConstantRR ==
  \A i, j \in 1..Len(rrIntervals) : rrIntervals[i] = rrIntervals[j]

\* C7: with constant RR spacing and any amplitudes, analyzeRhythm in the
\* steady phase returns detected = false (type NONE).
C7_ConstantRhythm ==
  adLast.op = "analyzeRhythm" /\ ~learningPhase /\ IsConstantRR
    => ~adLast.result.detected /\ adLast.result.type = "NONE"
C7_Witness ==
  /\ adLast.op = "analyzeRhythm"
  /\ adLast.result.path = "analysed"
  /\ IsConstantRR
  /\ Len(rrIntervals) > 20
  /\ \E i, j \in 1..Len(amplitudes) :
       amplitudes[i] = 0 /\ amplitudes[j] = 2 * BaseAmp

\* C9 as stated: analyzeRhythm returns detected = true only when RMSSD
\* exceeds the fixed threshold (100 ms in this detector) and rrVariation
\* exceeds 0.20 and the cooldown has elapsed.
C9_AsStated ==
  adLast.op = "analyzeRhythm" /\ adLast.result.detected
    => /\ RMSSDExceeds(rrIntervals, 100)
       /\ RRVariationExceeds(rrIntervals, 20, 100)
       /\ adLast.elapsed >= 1000

\* C9 amended: analyzeRhythm returns detected = true only when the cooldown
\* has elapsed, the detector is past learning with at least 8 intervals, and
\* either the AF criteria hold (RMSSD > 100, rrVariation > 0.10, at least
\* 70% of the length in successive differences above 100 ms) or the PVC or
\* the PAC interval pattern is present, whatever RMSSD and rrVariation are.
C9_Amended ==
  adLast.op = "analyzeRhythm" /\ adLast.result.detected
    => /\ adLast.elapsed >= 1000
       /\ ~learningPhase
       /\ Len(rrIntervals) >= 8
       /\ CASE adLast.result.type = "AF" ->
                 /\ SqDiffSum(rrIntervals) > 100 * 100 * (Len(rrIntervals) - 1)
                 /\ RRVariationExceeds(rrIntervals, 10, 100)
                 /\ 10 * IrregularCount(rrIntervals) >= 7 * Len(rrIntervals)
            [] adLast.result.type = "PVC" -> detectPVC(rrIntervals, amplitudes)
            [] adLast.result.type = "PAC" -> detectPAC(rrIntervals)
            [] OTHER -> FALSE
C9_Witness ==
  /\ adLast.op = "analyzeRhythm"
  /\ adLast.result.detected
  /\ adLast.result.type = "PAC"
  /\ ~RRVariationExceeds(rrIntervals, 20, 100)

-----------------------------------------------------------------------------
(* Properties of the VitalSignsProcessor, checked under Spec               *)

\* C1: every blood-pressure pair that processSignal reports other than 0/0
\* has systolic in [80,190], diastolic in [50,120] and systolic at least
\* diastolic plus the minimum differential (15).
C1_PressureInBounds ==
  vsOut.op = "processSignal" /\ ~(vsOut.systolic = 0 /\ vsOut.diastolic = 0)
    => /\ vsOut.systolic >= 80 /\ vsOut.systolic <= 190
       /\ vsOut.diastolic >= 50 /\ vsOut.diastolic <= 120
       /\ vsOut.systolic >= vsOut.diastolic + 15

\* C2: the spo2 value that processSignal returns is 0 or lies in [85,100].
C2_SpO2InBand ==
  vsOut.op = "processSignal"
    => vsOut.spo2 = 0 \/ (vsOut.spo2 >= 85 /\ vsOut.spo2 <= 100)

-----------------------------------------------------------------------------
(* Properties of useArrhythmiaAnalyzer, checked under SpecHook             *)

AnalysedWhileLearning == adLast.op = "analyzeRhythm" /\ learningPhase
ProcessedWhileLearning ==
  hook.last.op = "processArrhythmia" /\ hook.last.learning

\* C5 as stated: while the detector is in its learning phase analyzeRhythm
\* never returns detected = true (type NONE), and processArrhythmia reports
\* the calibrating status with count 0 and detected = false.
C5_AsStated ==
  /\ AnalysedWhileLearning
       => ~adLast.result.detected /\ adLast.result.type = "NONE"
  /\ ProcessedWhileLearning
       => hook.last.status = CalibratingStatus /\ ~hook.last.detected

\* C5 amended: while the detector is in its learning phase analyzeRhythm
\* never returns detected = true (type NONE); processArrhythmia returns
\* detected = false without running the detection, and reports the
\* calibrating status with count 0 when it was given a non-empty interval
\* list.
C5_Amended ==
  /\ AnalysedWhileLearning
       => ~adLast.result.detected /\ adLast.result.type = "NONE"
  /\ ProcessedWhileLearning
       => /\ ~hook.last.detected
          /\ ~hook.last.ranDetect
          /\ hook.last.hadIntervals
               => hook.last.status = [label |-> "CALIBRANDO", count |-> 0]
C5_Witness ==
  /\ AnalysedWhileLearning
  /\ adLast.result.path = "insufficient"
  /\ Len(rrIntervals) >= 8
  /\ detectAF(rrIntervals)
  /\ ProcessedWhileLearning
  /\ hook.last.hadIntervals
  /\ hook.isInitialized

-----------------------------------------------------------------------------
(* Properties of the injected-anomaly scenario, checked under SpecScenario *)

\* 30 clean beats of 800 ms, then one interval 50% shorter (400 ms) and one
\* 50% longer (1200 ms), possibly followed by further clean beats
ScenarioFed ==
  /\ Len(rrIntervals) >= 32
  /\ \A i \in 1..30 : rrIntervals[i] = 800
  /\ rrIntervals[31] = 400
  /\ rrIntervals[32] = 1200
  /\ \A i \in 33..Len(rrIntervals) : rrIntervals[i] = 800
  /\ \A i \in 1..Len(amplitudes) : amplitudes[i] = BaseAmp

\* C8: after 30 clean beats, one interval 50% shorter followed by one 50%
\* longer produces exactly one arrhythmia event: the number of analyses that
\* returned detected = true never exceeds 1 while the anomaly is in the
\* interval history.
C8_ExactlyOneEvent == ScenarioFed => adDrv.events <= 1

-----------------------------------------------------------------------------
(* Properties of the estimators on little data, checked under SpecMin      *)

\* C10: below the minimum fill every estimator reports its sentinel:
\* processSignal returns spo2 = 0 and pressure 0/0 for each of the first 59
\* samples, BloodPressureCalculator.calculate returns {0, 0} for fewer than
\* 20 values, SpO2Calculator.calculate returns 0 on a fresh instance for
\* fewer than 20 values, and analyzeRhythm returns no detection while at
\* most 10 intervals were fed.
C10_Sentinels ==
  /\ vsOut.op = "processSignal" /\ vsOut.call <= 59
       => vsOut.spo2 = 0 /\ vsOut.systolic = 0 /\ vsOut.diastolic = 0
  /\ bpCalc.out.op = "calculate" /\ bpCalc.out.len < 20
       => bpCalc.out.systolic = 0 /\ bpCalc.out.diastolic = 0
  /\ spo2Calc.out.op = "calculate" /\ spo2Calc.out.len < 20
       /\ spo2Calc.out.wasFresh
       => spo2Calc.out.value = 0
  /\ adLast.op = "analyzeRhythm" /\ adDrv.accepted <= 10
       => ~adLast.result.detected /\ adLast.result.type = "NONE"
C10_Witness ==
  /\ vsOut.op = "processSignal"
  /\ vsOut.call = 59
  /\ Len(PeakIdx(ppgValues)) >= 2
  /\ vsOut.spo2 = 0 /\ vsOut.systolic = 0 /\ vsOut.diastolic = 0

-----------------------------------------------------------------------------
(* Properties of the VitalSignsProcessor over a long recording, checked    *)
(* under SpecLong                                                          *)

\* a step that is a call of processSignal
FeedStep == vsOut'.op = "processSignal" /\ vsOut'.call = vsOut.call + 1

\* C11: whenever processSignal estimates the pressure on a window that has
\* fewer than 2 peaks or fewer than 2 valleys, it reports no reading (0/0)
\* and not the previous systolic/diastolic pair.
C11_NoStaleReading ==
  [][(/\ FeedStep
      /\ baselineEstablished'
      /\ \/ Len(PeakIdx(ppgValues')) < 2
         \/ Len(ValleyIdx(ppgValues')) < 2)
     => (vsOut'.systolic = 0 /\ vsOut'.diastolic = 0)]_vars

\* calculateActualSpO2, lines 196-207: the update is rejected on the window
\* recent because DC is 0 or the perfusion index is below the threshold
SpO2Rejected(recent) ==
  \/ SumSeq(recent) = 0
  \/ 75 * (SeqMax(recent) - SeqMin(recent)) * Len(recent) < SumSeq(recent)

\* C12: a processSignal call whose SpO2 update is rejected (DC = 0 or low
\* perfusion index) reports the same spo2 as the call before it.
C12_RejectedKeepsLast ==
  [][(/\ FeedStep
      /\ baselineEstablished'
      /\ SpO2Rejected(LastN(ppgValues', 60)))
     => vsOut'.spo2 = vsOut.spo2]_vars

\* calculateActualSpO2, line 229: the lower clamp of an accepted estimate
SPO2_FLOOR == 85
\* calculateAC(recent) = 0: the samples of the window are identical
IdenticalSamples(recent) == SeqMax(recent) = SeqMin(recent)

\* C13: a processSignal call whose SpO2 window holds identical samples
\* (AC = 0) reports the floor: the no-reading value 0 or the lower clamp 85,
\* and never a higher value.
C13_FlatReportsFloor ==
  [][(/\ FeedStep
      /\ baselineEstablished'
      /\ IdenticalSamples(LastN(ppgValues', 60)))
     => vsOut'.spo2 \in {0, SPO2_FLOOR}]_vars

-----------------------------------------------------------------------------
(* Properties of reset(), checked under SpecReset                          *)

\* the fields of the detector, and of a detector as constructed (lines 5-13)
ADFields ==
  [rr |-> rrIntervals, amps |-> amplitudes, peakTimes |-> lastPeakTimes,
   learning |-> learningPhase, count |-> learningPhaseCount,
   lastAnalysisTime |-> lastAnalysisTime, lastPeakTime |-> lastPeakTime]
ADFresh ==
  [rr |-> <<>>, amps |-> <<>>, peakTimes |-> <<>>, learning |-> TRUE,
   count |-> 0, lastAnalysisTime |-> 0, lastPeakTime |-> NoTime]

\* a processor as constructed after k samples of the waveform shape
RECURSIVE ReplayVS(_, _)
ReplayVS(shape, k) ==
  IF k = 0 THEN VSFresh
  ELSE processSignalOn(ReplayVS(shape, k - 1),
                       Wave(shape)[((k - 1) % Len(Wave(shape))) + 1])

\* a detector as constructed after the first k of the intervals rr with the
\* amplitudes amps
AddOn(d, interval, amplitude) ==
  addRRIntervalOn(d.rr, d.amps, d.learning, d.count, interval, amplitude)
RECURSIVE ReplayAD(_, _, _)
ReplayAD(rr, amps, k) ==
  IF k = 0
  THEN [rr |-> <<>>, amps |-> <<>>, learning |-> TRUE, count |-> 0]
  ELSE AddOn(ReplayAD(rr, amps, k - 1), rr[k], amps[k])

-----------------------------------------------------------------------------
(* Properties of the PPGSignalProcessor, checked under SpecSig             *)

\* the fields of the processor without the result of the last frame
SigState(p) == [p EXCEPT !.isFingerDetected = FALSE, !.quality = 0]

\* C15: after stop() followed by start() the finger-detection state equals
\* that of a freshly constructed (and started) processor, and a frame
\* reports fingerDetected only when the frames received since the start can
\* have met the stability criterion: a window of STABILITY_WINDOW values and
\* MIN_STABILITY_COUNT stable frames.
C15_RestartIsFresh ==
  /\ sig.op = "start"
       => SigState(sig.p) = [SigFresh EXCEPT !.isProcessing = TRUE]
  /\ sig.op = "processFrame" /\ sig.p.isFingerDetected
       => sig.sinceStart >= STABILITY_WINDOW + MIN_STABILITY_COUNT - 1

-----------------------------------------------------------------------------
(* Properties of the buffers, checked under SpecLong                       *)

\* new is old after push(x) and, beyond cap entries, shift(): the oldest
\* entry is removed and the others keep their order
IsFifoPush(old, new, cap) ==
  IF Len(old) < cap
  THEN Len(new) = Len(old) + 1 /\ SubSeq(new, 1, Len(old)) = old
  ELSE Len(new) = cap /\ SubSeq(new, 1, cap - 1) = Tail(old)

\* C16: every buffer stays within its capacity (ppgValues 300, smaBuffer 3,
\* movingAverageSpO2 10, rrIntervals and lastPeakTimes 50, amplitudes as
\* long as rrIntervals), and every push into a full buffer removes exactly
\* the oldest entry and keeps the others in arrival order.
C16_BoundedFifo ==
  [][/\ Len(ppgValues') <= WINDOW_SIZE
     /\ Len(smaBuffer') <= SMA_WINDOW
     /\ Len(movingAverageSpO2') <= SPO2_WINDOW
     /\ Len(rrIntervals') <= MAX_INTERVALS
     /\ Len(lastPeakTimes') <= MAX_INTERVALS
     /\ Len(amplitudes') = Len(rrIntervals')
     /\ FeedStep
          => /\ IsFifoPush(ppgValues, ppgValues', WINDOW_SIZE)
             /\ IsFifoPush(smaBuffer, smaBuffer', SMA_WINDOW)
             /\ IF baselineEstablished'
                THEN IsFifoPush(movingAverageSpO2, movingAverageSpO2',
                                SPO2_WINDOW)
                ELSE movingAverageSpO2' = movingAverageSpO2
     /\ AddStep /\ AcceptsInterval(adLast'.interval)
          => /\ IsFifoPush(rrIntervals, rrIntervals', MAX_INTERVALS)
             /\ IsFifoPush(amplitudes, amplitudes', MAX_INTERVALS)
             /\ rrIntervals'[Len(rrIntervals')] = adLast'.interval
     /\ adLast'.op = "setLastPeakTime" /\ now' = now
          => /\ IsFifoPush(lastPeakTimes, lastPeakTimes', MAX_INTERVALS)
             /\ lastPeakTimes'[Len(lastPeakTimes')] = now]_vars
\* the sample window is full and has dropped samples, with the moving
\* average buffer full as well
C16_Witness ==
  /\ gen.fed > WINDOW_SIZE
  /\ Len(ppgValues) = WINDOW_SIZE
  /\ Len(smaBuffer) = SMA_WINDOW
  /\ Len(movingAverageSpO2) = SPO2_WINDOW

-----------------------------------------------------------------------------
\* C17: the histories of VitalSignsRisk stay within a fixed capacity however
\* many getBPMRisk / getSPO2Risk / getBPRisk calls are made between resets.
\* The capacity tested is the number of calls the driver can make within
\* the measurement window, the only limit the class applies to a history.
HistoryCapacity == MEASUREMENT_WINDOW \div RiskTickMs
C17_HistoriesBounded ==
  /\ Len(risk.st.bpmHistory) <= HistoryCapacity
  /\ Len(risk.st.spo2History) <= HistoryCapacity
  /\ Len(risk.st.bpHistory) <= HistoryCapacity
  /\ Len(risk.st.bpmSegmentHistory) <= HistoryCapacity
  /\ Len(risk.st.bpSegmentHistory) <= HistoryCapacity

-----------------------------------------------------------------------------
\* C18: a sample that is not a finite number is rejected when it is
\* presented to processSignal: it is stored neither in the SMA buffer nor,
\* through the moving average, in the ppgValues buffer.
C18_NonFiniteRejected ==
  /\ \A i \in 1..Len(smaBuffer) : ~IsNaN(smaBuffer[i])
  /\ \A i \in 1..Len(ppgValues) : ~IsNaN(ppgValues[i])

-----------------------------------------------------------------------------
\* C19: the blood-pressure path never divides by zero: the systolic and
\* diastolic values processSignal returns (the two halves of its pressure
\* string) and the stored lastSystolic / lastDiastolic are always numbers,
\* also when the window has 3 or more peaks and no peak-valley amplitude.
C19_PressureIsNumeric ==
  /\ ~IsNaN(vsOut.systolic) /\ ~IsNaN(vsOut.diastolic)
  /\ ~IsNaN(lastSystolic) /\ ~IsNaN(lastDiastolic)

-----------------------------------------------------------------------------
\* C20: two sessions do not interfere: what a call of getBPMRisk,
\* getSPO2Risk or getBPRisk returns to a session is what it would have
\* returned had the calls of that session been the only ones, whatever
\* calls (resetHistory included) the other session has interleaved.
C20_SessionsIndependent ==
  risk.op \in {"bpm", "spo2", "bp"} => risk.out = risk.soloOut

-----------------------------------------------------------------------------
\* C21: two stabilizers that are reset and then fed the same sequence of
\* (rawBP, quality) inputs return identical output strings at every step.
C21_StabilizerReproducible == stab.outOne = stab.outTwo

-----------------------------------------------------------------------------
\* C29: every string stabilizeBloodPressure returns for a realistic reading
\* has its systolic value at least 30 above its diastolic value.
GapOf(bp) == ToNumber(Split(bp, "/")[1]) - ToNumber(Split(bp, "/")[2])
C29_GapAtLeast30 ==
  stab.op = "stabilize" /\ ~isBloodPressureUnrealistic(stab.rawBP)
    => GapOf(stab.outOne) >= MIN_GAP /\ GapOf(stab.outTwo) >= MIN_GAP

\* C22: every pair of integers written as '<systolic>/<diastolic>' and every
\* arrhythmia status written as '<LABEL>|<count>' is recovered by its
\* consumer: splitting on '/' or '|' and converting the numbers gives back the
\* same systolic and diastolic values, the same label and the same count.
C22_OutputStringsRoundTrip ==
  wire.stage = "parsed" => wire.parsed = wire.sent
C22_Witness ==
  /\ wire.stage = "parsed" /\ wire.kind = "status"
  /\ wire.sent = <<ARRHYTHMIA_DETECTED, 12>>
  /\ wire.parsed = wire.sent

\* C23: findPeaksAndValleys returns exactly the reference landmarks with
\* margin 3: index i is a peak iff 3 <= i < length - 3 and values[i] is
\* strictly greater than its six neighbours i-3 .. i+3, a valley iff it is
\* strictly smaller; a window shorter than 7 has no landmark; the indices of
\* each list are increasing.
ElementsOf(seq) == {seq[j] : j \in 1..Len(seq)}
Increasing(seq) == \A j \in 1..(Len(seq) - 1) : seq[j] < seq[j + 1]
ReferencePeaks(values) ==
  {i \in 0..(Len(values) - 1) :
     /\ 3 <= i /\ i < Len(values) - 3
     /\ \A d \in {-3, -2, -1, 1, 2, 3} : Greater(values[i + 1], values[i + 1 + d])}
ReferenceValleys(values) ==
  {i \in 0..(Len(values) - 1) :
     /\ 3 <= i /\ i < Len(values) - 3
     /\ \A d \in {-3, -2, -1, 1, 2, 3} : Less(values[i + 1], values[i + 1 + d])}
InWindow(history) ==
  {i \in 1..Len(history) :
     history[i].timestamp >= risk.clock - RISK_STABILITY_WINDOW}
InsideValue(history, lo, hi) ==
  {i \in InWindow(history) :
     history[i].value >= lo * RISK_SCALE /\ history[i].value <= hi * RISK_SCALE}
InsideBP(history, range) ==
  {i \in InWindow(history) :
     /\ history[i].systolic >= range[1] * RISK_SCALE
     /\ history[i].systolic <= range[2] * RISK_SCALE
     /\ history[i].diastolic >= range[3] * RISK_SCALE
     /\ history[i].diastolic <= range[4] * RISK_SCALE}
AtLeastThreeQuarters(inside, all) ==
  Cardinality(all) >= 3 /\ 4 * Cardinality(inside) >= 3 * Cardinality(all)
ValueRanges ==
  {<<140, 300>>, <<110, 139>>, <<50, 110>>, <<40, 49>>, <<0, 90>>, <<90, 92>>,
   <<93, 100>>}
BPRanges ==
  {<<150, 300, 100, 200>>, <<140, 149, 90, 99>>, <<114, 126, 76, 84>>,
   <<100, 110, 60, 70>>}
C24_StableOnlyIfThreeQuarters ==
  /\ \A range \in ValueRanges :
       \A history \in {risk.st.bpmHistory, risk.st.spo2History} :
         isStableValue(history, range[1], range[2], risk.clock)
           => AtLeastThreeQuarters(InsideValue(history, range[1], range[2]),
                                   InWindow(history))
  /\ \A range \in BPRanges :
       isStableBP(risk.st, range[1], range[2], range[3], range[4], risk.clock)
         => AtLeastThreeQuarters(InsideBP(risk.st.bpHistory, range),
                                 InWindow(risk.st.bpHistory))
C24_Witness ==
  /\ isStableValue(risk.st.bpmHistory, 50, 110, risk.clock)
  /\ InsideValue(risk.st.bpmHistory, 50, 110) # InWindow(risk.st.bpmHistory)

\* C25: on a final read getBPMRisk classifies the average of the last 20 s of
\* the heart-rate history into the stated bands: an average below 40 or of at
\* least 140 gives the severe band, 40-49 or 110-139 the mild band, 50-109 the
\* normal band.
SevereColor == "#ea384c"
MildColor == "#F97316"
NormalSegment == Segment("#FFFFFF", "NORMAL")
FinalBPMRead ==
  /\ risk.op = "bpm" /\ risk.last[risk.who].final
  /\ ReadingOf(risk.last[risk.who].profile).bpm > 0
BandOfAverage(avgBPM, segment) ==
  IF avgBPM < 40 \/ avgBPM >= 140 THEN segment.color = SevereColor
  ELSE IF avgBPM <= 49 \/ avgBPM >= 110 THEN segment.color = MildColor
  ELSE segment = NormalSegment
C25_FinalReadBands ==
  FinalBPMRead => BandOfAverage(getAverageBPM(risk.st, risk.clock), risk.out)

\* C26: for every stored history of 8 to 50 intervals, the irregularity
\* criterion of detectAF holds exactly when at least 70% of the n - 1
\* differences of consecutive intervals exceed 100 ms.
DifferencesAbove100(rr) ==
  {i \in 2..Len(rr) : rr[i] - rr[i - 1] > 100 \/ rr[i - 1] - rr[i] > 100}
C26_IrregularitySeventyPercent ==
  probe.fn = "detectAF" /\ probe.done /\ Len(probe.args[1]) <= MAX_INTERVALS
    => (probe.result
          <=> 10 * Cardinality(DifferencesAbove100(probe.args[1]))
                >= 7 * (Len(probe.args[1]) - 1))

\* C27: throttling never starves the sample buffer: every raw value offered
\* through addRawValue that lies in the accepted range is stored, so after n
\* calls the buffer holds the last min(n, capacity) accepted values.
AcceptedRaw(offered) == SelectSeq(offered, LAMBDA v : v >= 90 /\ v <= 100)
RawCapacity == SPO2_BUFFER_SIZE * 2
C27_EveryAcceptedValueStored ==
  probe.fn = "addRawValue"
    => probe.result.spo2RawBuffer
         = LastN(AcceptedRaw(probe.args[1]),
                 MinOf(Len(AcceptedRaw(probe.args[1])), RawCapacity))

\* C28: BloodPressureCalculator.calculate returns either {0, 0} or a pair
\* with systolic in [80, 190], diastolic in [50, 120] and systolic -
\* diastolic >= 15; it returns {0, 0} when the variability of the pulse
\* transit times (standard deviation / mean) is above 0.6.
\* getLastValidPressure returns '0/0' until the first pair is accepted after
\* construction or reset, and afterwards the most recently accepted pair: a
\* rejected update leaves it unchanged.
ReturnedZero == bpCalc.out.systolic = 0 /\ bpCalc.out.diastolic = 0
ReturnedInBounds ==
  /\ bpCalc.out.systolic >= 80 /\ bpCalc.out.systolic <= 190
  /\ bpCalc.out.diastolic >= 50 /\ bpCalc.out.diastolic <= 120
  /\ bpCalc.out.systolic - bpCalc.out.diastolic >= 15
\* the distances between the peaks of the last window, in samples
PeakDistances(peakIndices) ==
  [i \in 1..(Len(peakIndices) - 1) |-> peakIndices[i + 1] - peakIndices[i]]
LastPeakDistances ==
  PeakDistances(
    enhancedPeakDetection(Samples(bpCalc.out.shape, bpCalc.out.len)).peakIndices)
\* sum of (m * x - S)^2 over the m transit times x with sum S:
\* (stddev / mean)^2 = that sum / (m * S^2)
SquaredSpread(x) ==
  SumSeq([i \in 1..Len(x) |->
            (Len(x) * x[i] - SumSeq(x)) * (Len(x) * x[i] - SumSeq(x))])
VariabilityAbove60Percent(x) ==
  Len(x) > 0 /\ 25 * SquaredSpread(x) > 9 * Len(x) * SumSeq(x) * SumSeq(x)
C28_StateOfCalculator ==
  /\ bpCalc.out.op = "calculate" => ReturnedZero \/ ReturnedInBounds
  /\ bpCalc.out.op = "calculate" /\ bpCalc.out.len >= MIN_BP_VALUES
       /\ VariabilityAbove60Percent(LastPeakDistances)
       => ReturnedZero
  /\ bpCalc.out.op \in {"new", "reset"}
       => getLastValidPressure(bpCalc) = ZeroPressure
C28_StepOfCalculator ==
  bpCalc'.out.op = "calculate"
    => getLastValidPressure(bpCalc') =
         IF bpCalc'.out.systolic = 0 /\ bpCalc'.out.diastolic = 0
         THEN getLastValidPressure(bpCalc)
         ELSE PressureString(bpCalc'.out.systolic, bpCalc'.out.diastolic)
\* C28: the calculator satisfies both parts in every state and step
C28_ValidatedPressure ==
  [](C28_StateOfCalculator) /\ [][C28_StepOfCalculator]_vars
C28_Witness ==
  /\ bpCalc.out.op = "calculate" /\ bpCalc.out.shape = "uneven"
  /\ bpCalc.out.len = 60
  /\ VariabilityAbove60Percent(LastPeakDistances)
  /\ ReturnedZero
  /\ getLastValidPressure(bpCalc) # ZeroPressure

\* C30: once the 5-slot result buffer is full, the display smoothing of
\* SpO2Calculator.calculate weights the two most recently written results 3
\* and the three older ones 1, for every position of the write index.
WrittenBack(k) == probe.args[1][Len(probe.args[1]) - k]
C30_RecentResultsWeighThree ==
  probe.fn = "displaySmoothing" /\ Len(probe.args[1]) >= RESULT_BUFFER_SIZE
    => probe.result.finalSpO2
         = Round(3 * (WrittenBack(0) + WrittenBack(1))
                   + WrittenBack(2) + WrittenBack(3) + WrittenBack(4), 9)

\* C31: in the quality-weighted average of stabilizeBloodPressure, each
\* reading that survives the outlier filter is weighted by the quality that
\* was recorded together with that reading, for every history in which some
\* but not all readings are filtered out.
SurvivingIndices(bpValues) ==
  {i \in 1..Len(bpValues) :
     /\ WithinIqr(bpValues[i].systolic,
                  calculateMedian2([j \in 1..Len(bpValues) |-> bpValues[j].systolic]),
                  Iqr2(SortAsc([j \in 1..Len(bpValues) |-> bpValues[j].systolic])))
     /\ WithinIqr(bpValues[i].diastolic,
                  calculateMedian2([j \in 1..Len(bpValues) |-> bpValues[j].diastolic]),
                  Iqr2(SortAsc([j \in 1..Len(bpValues) |-> bpValues[j].diastolic])))}
OwnQualityMean(bpValues, kept, field, bpQualityRef) ==
  Round(SumSeq([i \in 1..Len(bpValues) |->
                  IF i \in kept
                  THEN bpValues[i][field] * Quality2At(bpQualityRef, i) ELSE 0]),
        SumSeq([i \in 1..Len(bpValues) |->
                  IF i \in kept THEN Quality2At(bpQualityRef, i) ELSE 0]))
KeptValues(bpValues, kept) ==
  [k \in 1..Cardinality(kept) |->
     bpValues[CHOOSE i \in kept : Cardinality({j \in kept : j <= i}) = k]]
WeightsAreOwn(st) ==
  LET bpValues == BpValues(st.bpHistoryRef)
      kept == SurvivingIndices(bpValues)
  IN Len(st.bpHistoryRef) >= 3 /\ kept # {} /\ kept # 1..Len(bpValues)
       => \A field \in {"systolic", "diastolic"} :
            WeightedMean(KeptValues(bpValues, kept), field, st.bpQualityRef)
              = OwnQualityMean(bpValues, kept, field, st.bpQualityRef)
C31_OwnQualityWeights ==
  probe.fn = "stabilizeBloodPressure" /\ probe.done
    => WeightsAreOwn(probe.result)

\* C32: the spo2 that VitalSignsProcessor.processSignal returns never exceeds
\* 98, and neither does the reading the processor keeps for the next call.
C32_SpO2AtMost98 ==
  /\ vsOut.spo2 <= 98
  /\ lastSpO2 <= 98
  /\ \A i \in 1..Len(movingAverageSpO2) : movingAverageSpO2[i] <= 98
\* a call after the baseline that returns the highest value, 98
C32_Witness ==
  /\ vsOut.op = "processSignal"
  /\ baselineEstablished
  /\ vsOut.spo2 = 98

\* C33: in the Index page, once the heart-rate, SpO2 or pressure display
\* holds a measured value, only a RESET that is not declined takes the value
\* away: no start, stop, timer expiry or signal returns the display to its
\* placeholder; and a RESET the user declines changes nothing.
HeartRateMeasured(p) == HeartRateDisplay(p) > 0
SpO2Measured(p) == SpO2Display(p) > 0
PressureMeasured(p) ==
  PressureDisplay(p) # Dashes /\ PressureDisplay(p) # ZeroPressure
DisplayCleared(p, q) ==
  \/ HeartRateMeasured(p) /\ ~HeartRateMeasured(q)
  \/ SpO2Measured(p) /\ ~SpO2Measured(q)
  \/ PressureMeasured(p) /\ ~PressureMeasured(q)
C33_OnlyResetClears ==
  [][/\ DisplayCleared(page, page') => page'.op = "reset"
     /\ page'.op = "declined" => [page' EXCEPT !.op = page.op] = page]_vars

\* C34: useArrhythmiaAnalyzer never runs the detection during the first 2000
\* ms after the detector was created or reset() was called last, however
\* reset(), processArrhythmia and the pending init timers interleave.
C34_NoDetectionWhileArming ==
  hook.last.op = "processArrhythmia" /\ hook.last.ranDetect
    => now - hook.armedAt >= INIT_DELAY_MS

-----------------------------------------------------------------------------
\* C35: once a PPGSignalProcessor (either class) is not processing, no step
\* hands a ProcessedSignal to onSignalReady until start() runs, and a
\* processFrame call that arrives then (a frame capture that was in flight
\* at stop()) leaves every field of the processor as it was.
C35_LateFrameIgnored ==
  [][/\ ~sig.p.isProcessing => sig'.p.signals = sig.p.signals
     /\ sig'.op = "ignored" => sig'.p = sig.p
     /\ ~ppg.p.isProcessing => ppg'.p.signals = ppg.p.signals
     /\ ppg'.op = "ignored" => ppg'.p = ppg.p]_vars
\* a frame reached processFrame after stop(), on a processor that had
\* delivered signals before
C35_Witness ==
  /\ sig.op = "ignored" /\ sig.stops > 0 /\ sig.p.signals > 0
  /\ ~sig.p.isProcessing
\* the same for the processor with hysteresis
C35_WitnessHysteresis ==
  /\ ppg.op = "ignored" /\ ppg.stops > 0 /\ ppg.p.signals > 0
  /\ ~ppg.p.isProcessing

-----------------------------------------------------------------------------
\* C36: the clearArrays callback that cleanMemory schedules never touches a
\* HeartBeatProcessor created after that cleanMemory returned: a timer step
\* leaves the processor that processorRef holds (necessarily one created
\* after the cleanup, which cleared the reference) exactly as it was.
C36_TimerSparesNewProcessor ==
  [][Len(hb'.h.timers) < Len(hb.h.timers)
       => hb'.h.processorRef = hb.h.processorRef]_vars
\* what does hold: a timer step does not replace the processor, and changes
\* it only by a reset()
C36_TimerOnlyResets ==
  [][Len(hb'.h.timers) < Len(hb.h.timers)
       => hb'.h.processorRef = ResetProcessor(hb.h.processorRef)]_vars

-----------------------------------------------------------------------------
\* the detection rises in this step / falls in this step
HystRises == ~ppg.p.isCurrentlyDetected /\ ppg'.p.isCurrentlyDetected
HystFalls == ppg.p.isCurrentlyDetected /\ ~ppg'.p.isCurrentlyDetected
\* the step is a processed frame in range whose stable-frame count is at
\* least MIN_STABILITY_COUNT and whose consecutive-detection count is 3
HystConfirmingFrame ==
  /\ ppg'.op = "processFrame"
  /\ HystInRange(FALSE, ppg'.red)
  /\ ppg'.p.stableFrameCount2 >= 2 * HYST_MIN_STABILITY_COUNT
  /\ ppg'.p.consecutiveDetections = MIN_CONSECUTIVE_DETECTIONS
  /\ ppg'.p.lastDetectionTime = ppg'.clock
\* the step is a processed frame out of the widened range that arrives
\* more than DETECTION_TIMEOUT after the last confirming detection
HystTimedOutFrame ==
  /\ ppg'.op = "processFrame"
  /\ ~HystInRange(TRUE, ppg'.red)
  /\ ppg'.clock - ppg.p.lastDetectionTime > DETECTION_TIMEOUT
\* C37 as stated: isCurrentlyDetected of the PPGSignalProcessor with
\* hysteresis rises only on a confirming frame and falls only on an
\* out-of-range frame more than 500 ms after the last confirming detection.
C37_Hysteresis ==
  [][/\ HystRises => HystConfirmingFrame
     /\ HystFalls => HystTimedOutFrame]_vars
\* C37 amended: isCurrentlyDetected rises only on a confirming frame; it
\* falls only on an out-of-range frame more than 500 ms after the last
\* confirming detection, or when stop() or calibrate() clear the detection
\* state; an out-of-range frame within 500 ms never drops it.
C37_Amended ==
  [][/\ HystRises => HystConfirmingFrame
     /\ HystFalls => HystTimedOutFrame \/ ppg'.op \in {"stop", "calibrate"}
     /\ /\ ppg.p.isCurrentlyDetected /\ ppg'.op = "processFrame"
        /\ ppg'.clock - ppg.p.lastDetectionTime <= DETECTION_TIMEOUT
        => ppg'.p.isCurrentlyDetected]_vars
\* a detection that rose and was then dropped by a late out-of-range frame
C37_Witness ==
  /\ ppg.op = "processFrame" /\ ppg.p.isProcessing
  /\ ~ppg.p.isCurrentlyDetected /\ ppg.p.lastDetectionTime > 0
  /\ ~HystInRange(TRUE, ppg.red)
\* a detection that an out-of-range frame within 500 ms did not drop
C37_HeldThroughGap ==
  /\ ppg.op = "processFrame" /\ ppg.p.isCurrentlyDetected
  /\ ~HystInRange(TRUE, ppg.red)

-----------------------------------------------------------------------------
\* C38: in every ProcessedSignal that either PPGSignalProcessor hands to
\* onSignalReady, fingerDetected = false implies quality = 0.
C38_NoFingerNoQuality ==
  /\ sig.op = "processFrame" /\ ~sig.p.isFingerDetected => sig.p.quality = 0
  /\ ppg.op = "processFrame" /\ ~ppg.p.isFingerDetected => ppg.p.quality = 0
\* a signal without a finger from a processor whose window is stable and in
\* range, but whose run of stable frames is still too short
C38_Witness ==
  /\ sig.op = "processFrame" /\ ~sig.p.isFingerDetected
  /\ sig.p.consecutiveStableFrames > 0
  /\ sig.red >= MIN_RED_THRESHOLD /\ sig.red <= MAX_RED_THRESHOLD
\* the same for the processor with hysteresis: stable frames in range, the
\* detection not yet confirmed
C38_WitnessHysteresis ==
  /\ ppg.op = "processFrame" /\ ~ppg.p.isFingerDetected
  /\ ppg.p.stableFrameCount2 >= 2 * HYST_MIN_STABILITY_COUNT
  /\ HystInRange(FALSE, ppg.red)
\* signals with a finger and a positive quality from either processor
C38_DetectedWithQuality ==
  /\ sig.op = "processFrame" /\ sig.p.isFingerDetected /\ sig.p.quality > 0
C38_DetectedWithQualityHysteresis ==
  /\ ppg.op = "processFrame" /\ ppg.p.isFingerDetected /\ ppg.p.quality > 0

-----------------------------------------------------------------------------
\* C39: every call of ArrhythmiaDetector.analyzeRhythm, throttled by the
\* cooldown, cut short by the learning phase or the lack of data, or fully
\* analysed, leaves rrIntervals, amplitudes, lastPeakTimes, the learning
\* flag and the learning counter as they were; of the detector's fields
\* only lastAnalysisTime may change (to the time of the call).
C39_AnalyzeRhythmReadOnly ==
  [][adLast'.op = "analyzeRhythm" /\ now' = now
       => /\ rrIntervals' = rrIntervals
          /\ amplitudes' = amplitudes
          /\ lastPeakTimes' = lastPeakTimes
          /\ learningPhase' = learningPhase
          /\ learningPhaseCount' = learningPhaseCount
          /\ lastPeakTime' = lastPeakTime
          /\ lastAnalysisTime' \in {lastAnalysisTime, now}]_vars
\* a full analysis that found an arrhythmia was run on a detector that
\* holds intervals, amplitudes and peak times
C39_Witness ==
  /\ adLast.op = "analyzeRhythm" /\ adLast.result.path = "analysed"
  /\ adLast.result.detected
  /\ rrIntervals # <<>> /\ amplitudes # <<>> /\ lastPeakTimes # <<>>
\* throttled calls and calls during the learning phase happen too
C39_Throttled ==
  adLast.op = "analyzeRhythm" /\ adLast.result.path = "throttled"
  /\ rrIntervals # <<>>
C39_WhileLearning ==
  adLast.op = "analyzeRhythm" /\ adLast.result.path = "insufficient"
  /\ learningPhase /\ rrIntervals # <<>>

-----------------------------------------------------------------------------
\* the values a SpO2 reading may take
SpO2Band == 90..99
C40_CalculatorReading ==
  spo2Calc.out.op = "calculate" /\ spo2Calc.out.value \in SpO2Band
  /\ spo2Calc.calls >= 2

====
